---------------------------- MODULE Spec2Model ----------------------------
(***************************************************************************)
(* Model of scrap_rate_dashboard.py: the run of main() over one workbook,  *)
(* the ingestion of its worksheets into the dataset (the flat record list  *)
(* and the four indexes) and the aggregation of the dataset.               *)
(*                                                                         *)
(* Representation.                                                         *)
(*   - Text is a sequence of one-character strings, so that strip(), the   *)
(*     regular expressions and strptime() are computed and not assumed.    *)
(*   - A Python value is a tagged record: None, a number, a str, a         *)
(*     datetime, a list.  Numbers are kept in hundredths (Scale), which    *)
(*     represents every quantity with at most two decimals exactly, and    *)
(*     every rate rounded to two decimals.                                 *)
(*   - A row dictionary (row_data) is a function from its keys (text) to   *)
(*     Python values; a retained record is the dictionary together with    *)
(*     the identity of the Python object, oid = <<sheet index, row>>.      *)
(***************************************************************************)
EXTENDS Integers, Sequences, FiniteSets, TLC

VARIABLES
    pc,             \* position of main() / extract_scrap_data_from_excel()
    excel_file,     \* the answer of the file dialog ("" when cancelled)
    sheetnames,     \* wb.sheetnames
    sheet_i,        \* index in sheetnames of the worksheet of the for loop
    header_row,     \* header row of the current worksheet (0: none yet)
    headers,        \* header labels of the current worksheet
    max_row,        \* sheet.max_row of the current worksheet
    row_idx,        \* the next row of the current worksheet to read
    last_row,       \* the cells of the row read last (<<>>: none yet)
    rows_read,      \* the number of data rows read so far
    scrap_data,     \* what extract_scrap_data_from_excel returned: "unset", "None", "data"
    all_records,    \* data['all_records']
    by_date,        \* data['by_date']
    by_machine,     \* data['by_machine']
    by_controlor,   \* data['by_controlor']
    by_part_number, \* data['by_part_number']
    stats,          \* the aggregates computed by generate_scrap_dashboard ("unset" before)
    messages,       \* titles of the message boxes and console notices shown so far
    output_file,    \* the artifact on disk: "absent", "partial" (possibly empty), "complete"
    fault,          \* the stage whose exception reached the handler ("none" before)
    reached,        \* the steps of main() that were started
    call            \* a function called on the dataset by itself: its arguments and result

vars == <<pc, excel_file, sheetnames, sheet_i, header_row, headers, max_row,
          row_idx, last_row, rows_read, scrap_data, all_records, by_date, by_machine,
          by_controlor, by_part_number, stats, messages, output_file, fault,
          reached, call>>

-----------------------------------------------------------------------------
(* Bounds of the model.                                                    *)

\* the data rows of a workbook, over all its worksheets
MaxRows == 2
\* the worksheets of a workbook
MaxSheets == 2

\* numbers are stored in hundredths: the two decimals of round(x, 2)
Scale == 10 * 10

-----------------------------------------------------------------------------
(* Python values.                                                          *)

None == [t |-> "None"]
\* a number of k hundredths
NumH(k) == [t |-> "num", n |-> k]
\* the integer k
Num(k) == NumH(k * Scale)
Str(s) == [t |-> "str", s |-> s]
DateTime(y, m, d) == [t |-> "datetime", y |-> y, m |-> m, d |-> d]
\* a datetime.date, which is not an instance of datetime.datetime
Date(y, m, d) == [t |-> "date", y |-> y, m |-> m, d |-> d]
\* an int whose magnitude is beyond the range of float (an int is unbounded)
HugeInt == [t |-> "int", beyond_float |-> TRUE]
List(l) == [t |-> "list", l |-> l]

IsNone(v) == v.t = "None"
IsNum(v) == v.t = "num"
IsStr(v) == v.t = "str"
IsDateTime(v) == v.t = "datetime"

\* bool(v)
Truthy(v) ==
    CASE v.t = "None" -> FALSE
      [] v.t = "num" -> v.n # 0
      [] v.t = "str" -> Len(v.s) > 0
      [] v.t = "list" -> Len(v.l) > 0
      [] OTHER -> TRUE

-----------------------------------------------------------------------------
(* Text.                                                                   *)

Digits == <<"0", "1", "2", "3", "4", "5", "6", "7", "8", "9">>
IsDigit(c) == c \in {"0", "1", "2", "3", "4", "5", "6", "7", "8", "9"}
DigitVal(c) == (CHOOSE i \in 1..10 : Digits[i] = c) - 1
IsUpper(c) == c \in {"A", "B", "C", "D", "E", "F", "G", "H", "I", "J", "K", "L", "M",
                     "N", "O", "P", "Q", "R", "S", "T", "U", "V", "W", "X", "Y", "Z"}
IsSpace(c) == c \in {" ", "\t", "\n", "\r"}

\* the decimal digits of s[i..j] read as a natural number
RECURSIVE DigitsVal(_, _, _)
DigitsVal(s, i, j) ==
    IF j < i THEN 0 ELSE DigitsVal(s, i, j - 1) * 10 + DigitVal(s[j])

\* str(k) of a natural number k
RECURSIVE NatStr(_)
NatStr(k) == IF k < 10 THEN <<Digits[k + 1]>> ELSE NatStr(k \div 10) \o <<Digits[(k % 10) + 1]>>

\* k written with at least w digits (zero padded)
RECURSIVE Pad(_, _)
Pad(s, w) == IF Len(s) >= w THEN s ELSE Pad(<<"0">> \o s, w)

\* str(v) of a number: an integral cell is an int ("12"), another one a float ("1.5")
NumStr(k) ==
    LET a == IF k < 0 THEN -k ELSE k
        frac == a % Scale
        fs == IF frac = 0 THEN <<>>
              ELSE IF frac % 10 = 0 THEN <<".", Digits[(frac \div 10) + 1]>>
              ELSE <<".">> \o Pad(NatStr(frac), 2)
    IN (IF k < 0 THEN <<"-">> ELSE <<>>) \o NatStr(a \div Scale) \o fs

\* s.strip()
RECURSIVE LStrip(_)
LStrip(s) == IF s # <<>> /\ IsSpace(Head(s)) THEN LStrip(Tail(s)) ELSE s
RECURSIVE RStrip(_)
RStrip(s) == IF s # <<>> /\ IsSpace(s[Len(s)]) THEN RStrip(SubSeq(s, 1, Len(s) - 1)) ELSE s
Strip(s) == RStrip(LStrip(s))

\* s.replace(c, '')
RECURSIVE Remove(_, _)
Remove(s, c) ==
    IF s = <<>> THEN <<>>
    ELSE (IF Head(s) = c THEN <<>> ELSE <<Head(s)>>) \o Remove(Tail(s), c)

\* the first index >= i of s whose character satisfies Digit, or 0
RECURSIVE FirstDigit(_, _)
FirstDigit(s, i) ==
    IF i > Len(s) THEN 0 ELSE IF IsDigit(s[i]) THEN i ELSE FirstDigit(s, i + 1)

\* the end of the longest run of digits of s that starts at i (i - 1 when empty)
RECURSIVE DigitRunEnd(_, _)
DigitRunEnd(s, i) ==
    IF i <= Len(s) /\ IsDigit(s[i]) THEN DigitRunEnd(s, i + 1) ELSE i - 1

\* the index of the first c in s at or after i, or 0
RECURSIVE IndexOf(_, _, _)
IndexOf(s, c, i) ==
    IF i > Len(s) THEN 0 ELSE IF s[i] = c THEN i ELSE IndexOf(s, c, i + 1)

-----------------------------------------------------------------------------
(* Calendar.                                                               *)

IsLeap(y) == (y % 4 = 0 /\ y % 100 # 0) \/ y % 400 = 0
DaysInMonth(y, m) ==
    IF m = 2 THEN (IF IsLeap(y) THEN 29 ELSE 28)
    ELSE IF m \in {4, 6, 9, 11} THEN 30 ELSE 31

\* datetime(y, m, d) is constructible (otherwise ValueError)
ValidDate(y, m, d) ==
    /\ y \in 1..9999
    /\ m \in 1..12
    /\ d \in 1..DaysInMonth(y, m)

\* (the month and the day are written without padding: '%Y-%-m-%-d')
StrfDateUnpadded(y, m, d) ==
    Pad(NatStr(y), 4) \o <<"-">> \o NatStr(m) \o <<"-">> \o NatStr(d)

\* dt.strftime('%Y-%m-%d'); %Y is written with four digits, which every C
\* library does for the years 1000..9999 (for earlier years some libraries do
\* not pad; the dates of the model are later)
StrfDate(y, m, d) ==
    Pad(NatStr(y), 4) \o <<"-">> \o Pad(NatStr(m), 2) \o <<"-">> \o Pad(NatStr(d), 2)

-----------------------------------------------------------------------------
(* extract_field, extract_number, parse_date, extract_part_numbers_from_row *)

\* (the first name that is a key, whatever its value: "if name in row_data")
RECURSIVE extract_field_of_first_key(_, _)
extract_field_of_first_key(row_data, possible_names) ==
    IF possible_names = <<>> THEN None
    ELSE IF Head(possible_names) \in DOMAIN row_data
         THEN row_data[Head(possible_names)]
         ELSE extract_field_of_first_key(row_data, Tail(possible_names))

\* extract_field(row_data, possible_names): the first name that is a key with
\* a value that is not None
RECURSIVE extract_field(_, _)
extract_field(row_data, possible_names) ==
    IF possible_names = <<>> THEN None
    ELSE IF Head(possible_names) \in DOMAIN row_data
            /\ ~IsNone(row_data[Head(possible_names)])
         THEN row_data[Head(possible_names)]
         ELSE extract_field(row_data, Tail(possible_names))

\* float(match.group()) of the match of [\d,]+\.?\d* that starts at i in s
\* (s holds no comma): the integer part, an optional point, the decimals.
\* Decimals after the second one are beyond the resolution of the model.
MatchedNumber(s, i) ==
    LET e == DigitRunEnd(s, i)
        hasPoint == e + 1 <= Len(s) /\ s[e + 1] = "."
        fe == IF hasPoint THEN DigitRunEnd(s, e + 2) ELSE e + 1
        d1 == IF hasPoint /\ fe >= e + 2 THEN DigitVal(s[e + 2]) ELSE 0
        d2 == IF hasPoint /\ fe >= e + 3 THEN DigitVal(s[e + 3]) ELSE 0
    IN DigitsVal(s, i, e) * Scale + d1 * 10 + d2

\* float(value) of an int beyond the range of float raises
OverflowError == [t |-> "raise", exception |-> "OverflowError"]

\* extract_number(value)
extract_number(value) ==
    IF IsNone(value) THEN None
    ELSE IF value = HugeInt THEN OverflowError
    ELSE IF IsNum(value) THEN NumH(value.n)
    ELSE IF IsStr(value)
         THEN LET s == Remove(value.s, ",")
                  i == FirstDigit(s, 1)
              IN IF i # 0 THEN NumH(MatchedNumber(s, i)) ELSE None
    ELSE None

\* (MM/DD/YYYY is tried before DD/MM/YYYY)
DateFormatsMonthFirst ==
    << [sep |-> "-", ord |-> <<"Y", "m", "d">>],
       [sep |-> ".", ord |-> <<"d", "m", "Y">>],
       [sep |-> "/", ord |-> <<"m", "d", "Y">>],
       [sep |-> "/", ord |-> <<"d", "m", "Y">>],
       [sep |-> "/", ord |-> <<"Y", "m", "d">>],
       [sep |-> "-", ord |-> <<"d", "m", "Y">> ] >>

\* The formats of parse_date, in the order tried: the separator and the order
\* of the three directives.
DateFormats ==
    << [sep |-> "-", ord |-> <<"Y", "m", "d">>],
       [sep |-> ".", ord |-> <<"d", "m", "Y">>],
       [sep |-> "/", ord |-> <<"d", "m", "Y">>],
       [sep |-> "/", ord |-> <<"m", "d", "Y">>],
       [sep |-> "/", ord |-> <<"Y", "m", "d">>],
       [sep |-> "-", ord |-> <<"d", "m", "Y">> ] >>

ValueError == [ok |-> FALSE]

AllDigits(f) == \A i \in 1..Len(f) : IsDigit(f[i])

\* the field f matches the regular expression of the strptime directive:
\*   %Y  \d\d\d\d
\*   %m  1[0-2]|0[1-9]|[1-9]
\*   %d  3[01]|[12]\d|0[1-9]|[1-9]| [1-9]
FieldMatches(dir, f) ==
    CASE dir = "Y" -> Len(f) = 4 /\ AllDigits(f)
      [] dir = "m" -> \/ Len(f) = 2 /\ AllDigits(f) /\ DigitsVal(f, 1, 2) \in 1..12
                      \/ Len(f) = 1 /\ AllDigits(f) /\ DigitVal(f[1]) \in 1..9
      [] dir = "d" -> \/ Len(f) = 2 /\ AllDigits(f) /\ DigitsVal(f, 1, 2) \in 1..31
                      \/ Len(f) = 1 /\ AllDigits(f) /\ DigitVal(f[1]) \in 1..9
                      \/ Len(f) = 2 /\ f[1] = " " /\ IsDigit(f[2]) /\ DigitVal(f[2]) \in 1..9

\* int() of a matched field
FieldVal(f) == IF f[1] = " " THEN DigitVal(f[2]) ELSE DigitsVal(f, 1, Len(f))

\* datetime.strptime(s, fmt): the date, or ValueError (ok = FALSE)
strptime(s, fmt) ==
    LET i1 == IndexOf(s, fmt.sep, 1)
        i2 == IF i1 = 0 THEN 0 ELSE IndexOf(s, fmt.sep, i1 + 1)
    IN IF i1 = 0 \/ i2 = 0 THEN ValueError
       ELSE LET f == << SubSeq(s, 1, i1 - 1), SubSeq(s, i1 + 1, i2 - 1),
                        SubSeq(s, i2 + 1, Len(s)) >>
                pos(dir) == CHOOSE k \in 1..3 : fmt.ord[k] = dir
            IN IF \A k \in 1..3 : FieldMatches(fmt.ord[k], f[k])
               THEN LET y == FieldVal(f[pos("Y")])
                        m == FieldVal(f[pos("m")])
                        d == FieldVal(f[pos("d")])
                    IN IF ValidDate(y, m, d) THEN [ok |-> TRUE, y |-> y, m |-> m, d |-> d]
                       ELSE ValueError
               ELSE ValueError

\* the loop of parse_date over the formats from the k-th on
RECURSIVE TryFormats(_, _)
TryFormats(s, k) ==
    IF k > Len(DateFormats) THEN None
    ELSE LET dt == strptime(s, DateFormats[k])
         IN IF ~dt.ok THEN TryFormats(s, k + 1)
            ELSE Str(StrfDate(dt.y, dt.m, dt.d))

\* parse_date(date_val)
parse_date(date_val) ==
    IF IsNone(date_val) THEN None
    ELSE IF IsDateTime(date_val)
         THEN Str(StrfDate(date_val.y, date_val.m, date_val.d))
    ELSE IF IsStr(date_val) THEN TryFormats(Strip(date_val.s), 1)
    ELSE None

\* s[i..] starts with n digits
DigitsAt(s, i, n) == i + n - 1 <= Len(s) /\ \A k \in i..(i + n - 1) : IsDigit(s[k])
UppersAt(s, i, n) == i + n - 1 <= Len(s) /\ \A k \in i..(i + n - 1) : IsUpper(s[k])
CharAt(s, i, c) == i <= Len(s) /\ s[i] = c

\* the length of the match of part_pattern at index i of s, 0 when none:
\*   [A-Z]\d{9} | [A-Z]-\d{6}\.\d{2}-\d{4}\.[A-Z]{2}\.[A-Z]{2}\d{0,2} | \d{4}-\d{4}-\d{2}
PartMatchLen(s, i) ==
    IF UppersAt(s, i, 1) /\ DigitsAt(s, i + 1, 9) THEN 10
    ELSE IF /\ UppersAt(s, i, 1) /\ CharAt(s, i + 1, "-") /\ DigitsAt(s, i + 2, 6)
            /\ CharAt(s, i + 8, ".") /\ DigitsAt(s, i + 9, 2) /\ CharAt(s, i + 11, "-")
            /\ DigitsAt(s, i + 12, 4) /\ CharAt(s, i + 16, ".") /\ UppersAt(s, i + 17, 2)
            /\ CharAt(s, i + 19, ".") /\ UppersAt(s, i + 20, 2)
         THEN IF DigitsAt(s, i + 22, 2) THEN 24
              ELSE IF DigitsAt(s, i + 22, 1) THEN 23 ELSE 22
    ELSE IF /\ DigitsAt(s, i, 4) /\ CharAt(s, i + 4, "-") /\ DigitsAt(s, i + 5, 4)
            /\ CharAt(s, i + 9, "-") /\ DigitsAt(s, i + 10, 2)
         THEN 12
    ELSE 0

\* part_pattern.findall(s) from index i on: the non-overlapping matches, left to right
RECURSIVE findall(_, _)
findall(s, i) ==
    IF i > Len(s) THEN <<>>
    ELSE LET n == PartMatchLen(s, i)
         IN IF n > 0 THEN <<SubSeq(s, i, i + n - 1)>> \o findall(s, i + n)
            ELSE findall(s, i + 1)

SeqRange(q) == {q[i] : i \in 1..Len(q)}

\* the sequences that list every element of the set S once
Orderings(S) ==
    {q \in [1..Cardinality(S) -> S] : \A i, j \in 1..Cardinality(S) : q[i] = q[j] => i = j}

\* (only the first match of a value is taken: part_pattern.search)
RECURSIVE MatchesOfFirst(_, _)
MatchesOfFirst(row_data, keys) ==
    IF keys = {} THEN <<>>
    ELSE LET k == CHOOSE x \in keys : TRUE
             value == row_data[k]
             found == IF Truthy(value) /\ IsStr(value) THEN findall(value.s, 1) ELSE <<>>
         IN (IF found = <<>> THEN <<>> ELSE <<found[1]>>) \o MatchesOfFirst(row_data, keys \ {k})

\* part_numbers after the loop over the items of row_data whose keys are in
\* keys: the matches in the values that are non-empty str
RECURSIVE MatchesOf(_, _)
MatchesOf(row_data, keys) ==
    IF keys = {} THEN <<>>
    ELSE LET k == CHOOSE x \in keys : TRUE
             value == row_data[k]
         IN (IF Truthy(value) /\ IsStr(value) THEN findall(value.s, 1) ELSE <<>>)
            \o MatchesOf(row_data, keys \ {k})

\* (the duplicates are kept: "return part_numbers")
extract_part_numbers_keeping_duplicates(row_data) ==
    {MatchesOf(row_data, DOMAIN row_data)}

\* the possible results of extract_part_numbers_from_row(row_data):
\* list(set(part_numbers)) lists the set in the order of its hash table, which
\* differs between runs
extract_part_numbers_from_row(row_data) ==
    Orderings(SeqRange(MatchesOf(row_data, DOMAIN row_data)))

-----------------------------------------------------------------------------
(* The text constants of the program.                                      *)

\* the keys of the derived fields of a record
k_sheet == <<"_", "s", "h", "e", "e", "t">>
k_parsed_date == <<"_", "p", "a", "r", "s", "e", "d", "_", "d", "a", "t", "e">>
k_total_parts == <<"_", "t", "o", "t", "a", "l", "_", "p", "a", "r", "t", "s">>
k_total_ok == <<"_", "t", "o", "t", "a", "l", "_", "o", "k">>
k_piese_nok == <<"_", "p", "i", "e", "s", "e", "_", "n", "o", "k">>
k_scrap_rebut == <<"_", "s", "c", "r", "a", "p", "_", "r", "e", "b", "u", "t">>
k_quarantine == <<"_", "q", "u", "a", "r", "a", "n", "t", "i", "n", "e">>
k_derogation == <<"_", "d", "e", "r", "o", "g", "a", "t", "i", "o", "n">>
k_total_nok == <<"_", "t", "o", "t", "a", "l", "_", "n", "o", "k">>
k_scrap_rate == <<"_", "s", "c", "r", "a", "p", "_", "r", "a", "t", "e">>
k_part_numbers == <<"_", "p", "a", "r", "t", "_", "n", "u", "m", "b", "e", "r", "s">>

\* the candidate column names of each field, in the order tried
date_names ==
    << <<"D", "a", "t", "a">>,
       <<"D", "a", "t", "e">>,
       <<"D", "a", "t", "a", "/", "D", "a", "t", "e">> >>
machine_names ==
    << <<"M", "a", "c", "h", "i", "n", "e">>,
       <<"M", "a", "s", "i", "n", "a">> >>
controlor_names ==
    << <<"C", "o", "n", "t", "r", "o", "l", "o", "r">>,
       <<"I", "n", "s", "p", "e", "c", "t", "o", "r">> >>
total_parts_names ==
    << <<"T", "o", "t", "a", "l", " ", "p", "i", "e", "s", "e", "\n", "T", "o", "t", "a", "l", " ", "p", "a", "r", "t", "s">>,
       <<"T", "o", "t", "a", "l", " ", "p", "i", "e", "s", "e">>,
       <<"T", "o", "t", "a", "l", " ", "p", "a", "r", "t", "s">> >>
total_ok_names ==
    << <<"T", "o", "t", "a", "l", " ", "p", "i", "e", "s", "e", " ", "O", "K", "\n", "T", "o", "t", "a", "l", " ", "p", "a", "r", "t", "s", " ", "O", "K">>,
       <<"T", "o", "t", "a", "l", " ", "p", "i", "e", "s", "e", " ", "O", "K">>,
       <<"T", "o", "t", "a", "l", " ", "p", "a", "r", "t", "s", " ", "O", "K">> >>
piese_nok_names ==
    << <<"P", "i", "e", "s", "e", " ", "N", "O", "K", "\n", "(", "S", "c", "r", "a", "p", "/", "r", "e", "w", "o", "r", "k", ")">>,
       <<"P", "i", "e", "s", "e", " ", "N", "O", "K">> >>
scrap_rebut_names ==
    << <<"S", "C", "R", "A", "P", "\n", "R", "E", "B", "U", "T">>,
       <<"R", "E", "B", "U", "T", "\n", "S", "C", "R", "A", "P">>,
       <<"S", "C", "R", "A", "P">>,
       <<"R", "E", "B", "U", "T">>,
       <<"T", "o", "t", "a", "l", " ", "p", "i", "e", "s", "e", " ", "r", "e", "b", "u", "t", " ", "t", "r", "i", "m", "i", "s", "e", "\n", "T", "o", "t", "a", "l", " ", "s", "c", "r", "a", "p", " ", "p", "a", "r", "t", "s", " ", "s", "e", "n", "t">> >>
quarantine_names ==
    << <<"Q", "U", "A", "R", "A", "N", "T", "I", "N", "E", "\n", "C", "A", "R", "A", "N", "T", "I", "N", "A", "\n", "S", "U", "S", "P", "E", "C", "T", "E">>,
       <<"C", "A", "R", "A", "N", "T", "I", "N", "A", "\n", "Q", "U", "A", "R", "A", "N", "T", "I", "N", "E", "\n", "S", "U", "S", "P", "E", "C", "T", "E">>,
       <<"Q", "U", "A", "R", "A", "N", "T", "I", "N", "E">>,
       <<"S", "U", "S", "P", "E", "C", "T", "E">>,
       <<"Q", "u", "a", "r", "a", "n", "t", "i", "n", "e">> >>
derogation_names ==
    << <<"D", "E", "R", "O", "G", "A", "T", "I", "O", "N", "\n", "D", "E", "R", "O", "G", "A", "R", "E">>,
       <<"D", "E", "R", "O", "G", "A", "R", "E", "\n", "D", "E", "R", "O", "G", "A", "T", "I", "O", "N">>,
       <<"D", "E", "R", "O", "G", "A", "T", "I", "O", "N">> >>

\* the worksheet names the program tests for
s_DropDownList == <<"D", "r", "o", "p", " ", "D", "o", "w", "n", " ", "L", "i", "s", "t">>
s_Rebuturi == <<"R", "e", "b", "u", "t", "u", "r", "i">>
s_Column_ == <<"C", "o", "l", "u", "m", "n", "_">>

-----------------------------------------------------------------------------
(* Arithmetic of rates.                                                    *)

ZeroDivisionError == [t |-> "ZeroDivisionError"]
IsError(x) == x.t = "ZeroDivisionError"

\* a / b * 100 on floats: the exact quotient (a * 100) / b, or ZeroDivisionError
PyDivide100(a, b) ==
    IF b = 0 THEN ZeroDivisionError ELSE [t |-> "ratio", a |-> a * 100, b |-> b]

\* the integer nearest to a / b (b # 0), the even one on a tie
RoundHalfEven(a, b) ==
    LET n == IF b < 0 THEN -a ELSE a
        d == IF b < 0 THEN -b ELSE b
        q == n \div d
        r == n % d
    IN IF 2 * r < d THEN q
       ELSE IF 2 * r > d THEN q + 1
       ELSE IF q % 2 = 0 THEN q ELSE q + 1

\* round(x, 2) of a rate x (a quotient, or the int 0 of a guarded division).
\* Python rounds the binary float, which differs from the exact quotient only on
\* ties at the third decimal; no tie arises from the quantities of the model.
round2(x) ==
    CASE x.t = "ratio" -> NumH(RoundHalfEven(x.a * Scale, x.b))
      [] OTHER -> x

-----------------------------------------------------------------------------
(* extract_scrap_data_from_excel: one row.                                 *)

SetMax(S) == CHOOSE x \in S : \A y \in S : y <= x

EmptyDict == [k \in {} |-> None]

\* d[k] = v
Put(d, k, v) == [x \in (DOMAIN d) \cup {k} |-> IF x = k THEN v ELSE d[x]]

\* str(v)
PyStr(v) ==
    CASE v.t = "str" -> v.s
      [] v.t = "num" -> NumStr(v.n)
      [] v.t = "datetime" -> StrfDate(v.y, v.m, v.d) \o <<" ", "0", "0", ":", "0", "0", ":", "0", "0">>
      [] OTHER -> <<"N", "o", "n", "e">>

\* sub in s
Contains(s, sub) ==
    \E i \in 1..(Len(s) - Len(sub) + 1) : SubSeq(s, i, i + Len(sub) - 1) = sub

\* (the header is taken from row 1 whatever the name)
HeaderRowFirst(sheet_name) == 1

\* the header row of a worksheet
HeaderRowOf(sheet_name) == IF Contains(sheet_name, s_Rebuturi) THEN 2 ELSE 1

\* the label of the header cell of column col
HeaderLabel(cell_value, col) ==
    IF Truthy(cell_value) THEN Strip(PyStr(cell_value)) ELSE s_Column_ \o NatStr(col)

\* (a cell of blanks counts as data: "if cell_value is not None")
has_data_unstripped(cells) ==
    \E c \in 1..Len(cells) : ~IsNone(cells[c])

\* has_data after the loop over the columns of a row
has_data(cells) ==
    \E c \in 1..Len(cells) : ~IsNone(cells[c]) /\ Strip(PyStr(cells[c])) # <<>>

\* row_data after the loop over the columns: a later column overwrites an
\* earlier one of the same label
RowDict(hdrs, cells) ==
    [h \in SeqRange(hdrs) |-> cells[SetMax({c \in 1..Len(hdrs) : hdrs[c] = h})]]

\* total_nok: piese_nok, or total - ok, or 0
total_nok_of(piese_nok, total_parts, total_ok) ==
    IF ~IsNone(piese_nok) THEN piese_nok
    ELSE IF Truthy(total_parts) /\ Truthy(total_ok) THEN NumH(total_parts.n - total_ok.n)
    ELSE Num(0)

\* (the sign of total_parts is not tested: "if total_parts:")
scrap_rate_of_unsigned(total_nok, total_parts) ==
    IF Truthy(total_parts)
    THEN round2(PyDivide100(total_nok.n, total_parts.n))
    ELSE None

\* row_data['_scrap_rate']
scrap_rate_of(total_nok, total_parts) ==
    IF Truthy(total_parts) /\ total_parts.n > 0
    THEN round2(PyDivide100(total_nok.n, total_parts.n))
    ELSE None

\* row_data of a retained row (r1: the cells and '_sheet') before the part
\* numbers are extracted
DerivedFields(r1) ==
    LET date_val == extract_field(r1, date_names)
        total_parts == extract_number(extract_field(r1, total_parts_names))
        total_ok == extract_number(extract_field(r1, total_ok_names))
        piese_nok == extract_number(extract_field(r1, piese_nok_names))
        scrap_rebut == extract_number(extract_field(r1, scrap_rebut_names))
        quarantine == extract_number(extract_field(r1, quarantine_names))
        derogation == extract_number(extract_field(r1, derogation_names))
        r2 == Put(r1, k_parsed_date, parse_date(date_val))
        r3 == Put(r2, k_total_parts, total_parts)
        r4 == Put(r3, k_total_ok, total_ok)
        r5 == Put(r4, k_piese_nok, piese_nok)
        r6 == Put(r5, k_scrap_rebut, scrap_rebut)
        r7 == Put(r6, k_quarantine, quarantine)
        r8 == Put(r7, k_derogation, derogation)
        total_nok == total_nok_of(piese_nok, total_parts, total_ok)
        r9 == Put(r8, k_total_nok, total_nok)
    IN Put(r9, k_scrap_rate, scrap_rate_of(total_nok, total_parts))

\* (only the records that have a scrap rate are listed, as records_with_data is)
append_record_with_rate(records, rec) ==
    IF IsNone(rec.row_data[k_scrap_rate]) THEN records ELSE Append(records, rec)

\* data['all_records'].append(row_data)
append_record(records, rec) == Append(records, rec)

\* index[key].append(rec) on a defaultdict(list)
AppendTo(index, key, rec) ==
    [k \in (DOMAIN index) \cup {key} |->
        IF k = key THEN Append(IF key \in DOMAIN index THEN index[key] ELSE <<>>, rec)
        ELSE index[k]]

\* "if val: index[key].append(rec)"
IndexIf(index, val, key, rec) ==
    IF Truthy(val) THEN AppendTo(index, key, rec) ELSE index

\* "for part_num in part_numbers: index[part_num].append(rec)"
RECURSIVE IndexParts(_, _, _)
IndexParts(index, part_numbers, rec) ==
    IF part_numbers = <<>> THEN index
    ELSE IndexParts(AppendTo(index, Head(part_numbers), rec), Tail(part_numbers), rec)

-----------------------------------------------------------------------------
(* Ordering of text.                                                       *)

\* the characters of text in the order of their code points (the quotation
\* mark, the backslash and the grave accent are left out)
Ascii ==
    << "\t", "\n", "\r", " ", "!", "#", "$", "%", "&", "'", "(", ")", "*", "+", ",",
       "-", ".", "/", "0", "1", "2", "3", "4", "5", "6", "7", "8", "9", ":", ";", "<",
       "=", ">", "?", "@", "A", "B", "C", "D", "E", "F", "G", "H", "I", "J", "K", "L",
       "M", "N", "O", "P", "Q", "R", "S", "T", "U", "V", "W", "X", "Y", "Z", "[",
       "]", "^", "_", "a", "b", "c", "d", "e", "f", "g", "h", "i", "j", "k", "l",
       "m", "n", "o", "p", "q", "r", "s", "t", "u", "v", "w", "x", "y", "z", "{", "|",
       "}", "~" >>

CharCode(c) == CHOOSE i \in 1..Len(Ascii) : Ascii[i] = c

\* a < b on str
RECURSIVE StrLess(_, _)
StrLess(a, b) ==
    IF b = <<>> THEN FALSE
    ELSE IF a = <<>> THEN TRUE
    ELSE IF Head(a) = Head(b) THEN StrLess(Tail(a), Tail(b))
    ELSE CharCode(Head(a)) < CharCode(Head(b))

\* (the start date is set at every date of the bucket: the latest remains)
StrLatest(S) == CHOOSE x \in S : \A y \in S : y = x \/ StrLess(y, x)
StrMax(S) == CHOOSE x \in S : \A y \in S : y = x \/ StrLess(y, x)
StrMin(S) == CHOOSE x \in S : \A y \in S : y = x \/ StrLess(x, y)

\* sorted(S, reverse=True) of a set of distinct str
RECURSIVE SortedDesc(_)
SortedDesc(S) ==
    IF S = {} THEN <<>> ELSE <<StrMax(S)>> \o SortedDesc(S \ {StrMax(S)})

\* (the dates are taken the latest first, as the rollups take them)
SortedLatestFirst(S) == SortedDesc(S)

\* sorted(S) of a set of distinct str
RECURSIVE SortedAsc(_)
SortedAsc(S) ==
    IF S = {} THEN <<>> ELSE <<StrMin(S)>> \o SortedAsc(S \ {StrMin(S)})

-----------------------------------------------------------------------------
(* The aggregator.                                                         *)

\* (the guard lets a zero total through: "if total >= 0")
rate_or_zero_weak_guard(x, total) == IF total >= 0 THEN PyDivide100(x, total) ELSE Num(0)

\* "(x / total * 100) if total > 0 else 0"
rate_or_zero(x, total) == IF total > 0 THEN PyDivide100(x, total) ELSE Num(0)

\* (the field of a record replaces the sum: "total = parts")
SumFieldLast(records, key) ==
    IF records = <<>> THEN 0
    ELSE LET v == records[Len(records)].row_data[key] IN IF Truthy(v) THEN v.n ELSE 0

\* the sum of a derived field over records, a None or zero field adding nothing
\* ("if parts: total += parts", "total += record.get(key, 0) or 0")
RECURSIVE SumField(_, _)
SumField(records, key) ==
    IF records = <<>> THEN 0
    ELSE (LET v == Head(records).row_data[key] IN IF Truthy(v) THEN v.n ELSE 0)
         + SumField(Tail(records), key)

\* the overall totals and rates of generate_scrap_dashboard
overall_stats(records) ==
    LET total_parts == SumField(records, k_total_parts)
        total_ok == SumField(records, k_total_ok)
        total_nok == SumField(records, k_total_nok)
    IN [ total_records |-> Len(records),
         total_parts |-> NumH(total_parts),
         total_ok |-> NumH(total_ok),
         total_nok |-> NumH(total_nok),
         overall_scrap_rate |-> rate_or_zero(total_nok, total_parts),
         overall_quality_rate |-> rate_or_zero(total_ok, total_parts) ]

\* calculate_machine_stats, calculate_controlor_stats, calculate_part_stats:
\* the statistics of each key of an index
group_stats(index) ==
    [ key \in DOMAIN index |->
        LET total_parts == SumField(index[key], k_total_parts)
            total_nok == SumField(index[key], k_total_nok)
        IN [ total_checked |-> NumH(total_parts),
             total_suspecte |-> NumH(total_nok),
             scrap_rate |-> round2(rate_or_zero(total_nok, total_parts)),
             record_count |-> Len(index[key]) ] ]

calculate_machine_stats(index) == group_stats(index)
calculate_controlor_stats(index) == group_stats(index)
calculate_part_stats(index) == group_stats(index)

\* the day of the year, 1 for January 1st
RECURSIVE DaysBeforeMonth(_, _)
DaysBeforeMonth(y, m) ==
    IF m = 1 THEN 0 ELSE DaysBeforeMonth(y, m - 1) + DaysInMonth(y, m - 1)
DayOfYear(y, m, d) == DaysBeforeMonth(y, m) + d

\* the day of the week, 0 for Sunday (0001-01-01 is a Monday)
Weekday(y, m, d) ==
    LET p == y - 1
    IN (365 * p + (p \div 4) - (p \div 100) + (p \div 400) + DayOfYear(y, m, d)) % 7

\* strftime('%U'): the week of the year, the weeks starting on Sunday and the
\* days before the first Sunday being in week 0
WeekOfYear(y, m, d) == ((DayOfYear(y, m, d) - 1) + 7 - Weekday(y, m, d)) \div 7

\* (the week is left out of the key: '%Y')
year_only(dt) == Pad(NatStr(dt.y), 4)

\* date_obj.strftime('%Y-W%U')
year_week_of(dt) ==
    Pad(NatStr(dt.y), 4) \o <<"-", "W">> \o Pad(NatStr(WeekOfYear(dt.y, dt.m, dt.d)), 2)

\* date_obj.strftime('%Y-%m')
year_month_of(dt) == Pad(NatStr(dt.y), 4) \o <<"-">> \o Pad(NatStr(dt.m), 2)

\* the keys of by_date that datetime.strptime(date_str, '%Y-%m-%d') accepts (the
\* others are skipped by the except clause)
ParsedDates(index) == {ds \in DOMAIN index : strptime(ds, DateFormats[1]).ok}

\* (the totals of a bucket are set, not added to, at each of its dates: those
\* of its last date remain)
SumOverLastDate(index, dates, key) ==
    IF dates = {} THEN 0 ELSE SumField(index[StrMax(dates)], key)

\* the sum of a derived field over the records of the dates of a set
RECURSIVE SumOverDates(_, _, _)
SumOverDates(index, dates, key) ==
    IF dates = {} THEN 0
    ELSE LET ds == CHOOSE x \in dates : TRUE
         IN SumField(index[ds], key) + SumOverDates(index, dates \ {ds}, key)

\* the summary of one bucket of dates
bucket_summary(index, dates) ==
    LET total_parts == SumOverDates(index, dates, k_total_parts)
        total_ok == SumOverDates(index, dates, k_total_ok)
        total_nok == SumOverDates(index, dates, k_total_nok)
    IN [ total_parts |-> NumH(total_parts),
         total_ok |-> NumH(total_ok),
         total_nok |-> NumH(total_nok),
         scrap_rate |-> round2(rate_or_zero(total_nok, total_parts)),
         quality_rate |-> round2(rate_or_zero(total_ok, total_parts)) ]

\* calculate_weekly_stats: one entry per week, the most recent week first; the
\* label is built from the week number and the first and last date of the bucket
calculate_weekly_stats(index) ==
    LET week(ds) == year_week_of(strptime(ds, DateFormats[1]))
        weeks == {week(ds) : ds \in ParsedDates(index)}
        order == SortedDesc(weeks)
    IN [ i \in 1..Len(order) |->
           LET dates == {ds \in ParsedDates(index) : week(ds) = order[i]}
               s == bucket_summary(index, dates)
           IN [ week |-> order[i],
                start_date |-> StrMin(dates),
                end_date |-> StrMax(dates),
                total_parts |-> s.total_parts,
                total_ok |-> s.total_ok,
                total_nok |-> s.total_nok,
                scrap_rate |-> s.scrap_rate,
                quality_rate |-> s.quality_rate ] ]

\* calculate_monthly_stats: one entry per month, the most recent month first
calculate_monthly_stats(index) ==
    LET month(ds) == year_month_of(strptime(ds, DateFormats[1]))
        months == {month(ds) : ds \in ParsedDates(index)}
        order == SortedDesc(months)
    IN [ i \in 1..Len(order) |->
           LET dates == {ds \in ParsedDates(index) : month(ds) = order[i]}
               s == bucket_summary(index, dates)
           IN [ month |-> order[i],
                total_parts |-> s.total_parts,
                total_ok |-> s.total_ok,
                total_nok |-> s.total_nok,
                scrap_rate |-> s.scrap_rate,
                quality_rate |-> s.quality_rate ] ]

\* date_obj.toordinal(): the number of the day, 1 for 0001-01-01
toordinal(dt) ==
    LET p == dt.y - 1
    IN 365 * p + (p \div 4) - (p \div 100) + (p \div 400) + DayOfYear(dt.y, dt.m, dt.d)

\* (the summary is left with the latest date first)
Unreversed(s) == s

\* summary[::-1]
Reversed(s) == [i \in 1..Len(s) |-> s[Len(s) + 1 - i]]

\* calculate_daily_stats(scrap_data, days): the dates are sorted with the latest
\* first, the first `days` of them are kept when they are not before the cutoff
\* (the latest date less days - 1 days) and their total of parts is positive,
\* and the summary is reversed.  (The field date_label is left out.)
calculate_daily_stats(index, days) ==
    LET sorted_dates == SortedDesc(DOMAIN index)
    IN IF sorted_dates = <<>> THEN <<>>
       ELSE LET latest_date == strptime(sorted_dates[1], DateFormats[1])
            IN IF ~latest_date.ok THEN <<>>
               ELSE LET cutoff_date == toordinal(latest_date) - (days - 1)
                        last_n == SubSeq(sorted_dates, 1,
                                         IF days < Len(sorted_dates) THEN days
                                         ELSE Len(sorted_dates))
                        kept(ds) ==
                            LET date_obj == strptime(ds, DateFormats[1])
                            IN /\ date_obj.ok
                               /\ ~(toordinal(date_obj) < cutoff_date)
                               /\ SumField(index[ds], k_total_parts) > 0
                        days_kept == SelectSeq(last_n, kept)
                        daily_summary ==
                            [ i \in 1..Len(days_kept) |->
                                LET total_parts == SumField(index[days_kept[i]], k_total_parts)
                                    total_ok == SumField(index[days_kept[i]], k_total_ok)
                                    total_nok == SumField(index[days_kept[i]], k_total_nok)
                                IN [ date |-> days_kept[i],
                                     total_parts |-> NumH(total_parts),
                                     total_ok |-> NumH(total_ok),
                                     total_nok |-> NumH(total_nok),
                                     scrap_rate |-> round2(PyDivide100(total_nok, total_parts)),
                                     quality_rate |-> round2(PyDivide100(total_ok, total_parts)) ] ]
                    IN Reversed(daily_summary)

\* calculate_trend_data: the dates in ascending order whose total of parts is
\* positive, with their scrap rate and their total of parts
calculate_trend_data(index) ==
    LET sorted_dates == SortedAsc(DOMAIN index)
        has_volume(date) == SumField(index[date], k_total_parts) > 0
        dates == SelectSeq(sorted_dates, has_volume)
    IN [ labels |-> dates,
         scrap_rates |->
            [ i \in 1..Len(dates) |->
                round2(PyDivide100(SumField(index[dates[i]], k_total_nok),
                                   SumField(index[dates[i]], k_total_parts))) ],
         volumes |-> [ i \in 1..Len(dates) |-> NumH(SumField(index[dates[i]], k_total_parts)) ] ]

\* (the sum of a sheet is set, not added to: "sheet_stats[sheet] = nok")
RECURSIVE sheet_stats_of_last(_, _)
sheet_stats_of_last(records, acc) ==
    IF records = <<>> THEN acc
    ELSE LET sheet == Head(records).row_data[k_sheet].s
             nok == Head(records).row_data[k_total_nok]
         IN IF Truthy(nok)
            THEN sheet_stats_of_last(Tail(records),
                     [ keys |-> IF sheet \in SeqRange(acc.keys) THEN acc.keys
                                ELSE Append(acc.keys, sheet),
                       sum |-> Put(acc.sum, sheet, nok.n) ])
            ELSE sheet_stats_of_last(Tail(records), acc)

\* sheet_stats after the loop over the records: the sheets in the order of
\* their insertion into the dictionary (keys) and their sums of NOK (sum); a
\* record whose NOK is falsy adds nothing, not even its sheet
RECURSIVE sheet_stats(_, _)
sheet_stats(records, acc) ==
    IF records = <<>> THEN acc
    ELSE LET sheet == Head(records).row_data[k_sheet].s
             nok == Head(records).row_data[k_total_nok]
         IN IF Truthy(nok)
            THEN sheet_stats(Tail(records),
                     [ keys |-> IF sheet \in SeqRange(acc.keys) THEN acc.keys
                                ELSE Append(acc.keys, sheet),
                       sum |-> Put(acc.sum, sheet,
                                   (IF sheet \in DOMAIN acc.sum THEN acc.sum[sheet] ELSE 0)
                                   + nok.n) ])
            ELSE sheet_stats(Tail(records), acc)

\* (the items sorted in ascending order and then reversed, "sorted(..)[::-1]":
\* of the items of the greatest value the last one comes first)
RECURSIVE sorted_ascending_reversed(_, _)
sorted_ascending_reversed(keys, sum) ==
    IF keys = <<>> THEN <<>>
    ELSE LET i == CHOOSE i \in 1..Len(keys) :
                    /\ \A j \in 1..Len(keys) : sum[keys[j]] <= sum[keys[i]]
                    /\ \A j \in (i + 1)..Len(keys) : sum[keys[j]] < sum[keys[i]]
         IN <<keys[i]>>
            \o sorted_ascending_reversed(SubSeq(keys, 1, i - 1) \o SubSeq(keys, i + 1, Len(keys)),
                                         sum)

\* sorted(items, key=lambda x: x[1], reverse=True): the sort is stable, so that
\* of the items of the greatest value the first one comes first
RECURSIVE sorted_by_value_desc(_, _)
sorted_by_value_desc(keys, sum) ==
    IF keys = <<>> THEN <<>>
    ELSE LET i == CHOOSE i \in 1..Len(keys) :
                    /\ \A j \in 1..Len(keys) : sum[keys[j]] <= sum[keys[i]]
                    /\ \A j \in 1..(i - 1) : sum[keys[j]] < sum[keys[i]]
         IN <<keys[i]>>
            \o sorted_by_value_desc(SubSeq(keys, 1, i - 1) \o SubSeq(keys, i + 1, Len(keys)), sum)

\* calculate_category_breakdown: the sheets and their sums of NOK, the greatest
\* sum first
calculate_category_breakdown(records) ==
    LET st == sheet_stats(records, [keys |-> <<>>, sum |-> EmptyDict])
        sorted_sheets == sorted_by_value_desc(st.keys, st.sum)
    IN [ labels |-> sorted_sheets,
         values |-> [ i \in 1..Len(sorted_sheets) |-> NumH(st.sum[sorted_sheets[i]]) ] ]

\* scrap_data['by_date'][key] for every key of keys: the index after the
\* lookups, a defaultdict(list) putting an empty list under a key it lacks
defaultdict_getitems(index, keys) ==
    [ k \in (DOMAIN index) \cup keys |-> IF k \in DOMAIN index THEN index[k] ELSE <<>> ]

\* (the days of the month of the latest date are looked up, from its first day)
daily_lookups_of_month(index, days) ==
    IF DOMAIN index = {} THEN {}
    ELSE LET latest_date == strptime(StrMax(DOMAIN index), DateFormats[1])
         IN IF ~latest_date.ok THEN {}
            ELSE (DOMAIN index) \cup {StrfDate(latest_date.y, latest_date.m, 1)}

\* the keys calculate_daily_stats looks up in by_date (line 1523): of the first
\* `days` dates, the latest first, those that parse and are not before the cutoff
daily_lookups(index, days) ==
    LET sorted_dates == SortedDesc(DOMAIN index)
    IN IF sorted_dates = <<>> THEN {}
       ELSE LET latest_date == strptime(sorted_dates[1], DateFormats[1])
            IN IF ~latest_date.ok THEN {}
               ELSE { ds \in { sorted_dates[i] : i \in 1..Len(sorted_dates) } :
                        /\ \E i \in 1..days : i <= Len(sorted_dates) /\ sorted_dates[i] = ds
                        /\ strptime(ds, DateFormats[1]).ok
                        /\ ~(toordinal(strptime(ds, DateFormats[1]))
                               < toordinal(latest_date) - (days - 1)) }

\* the keys calculate_trend_data looks up in by_date (line 1662): every key
trend_lookups(index) == DOMAIN index

\* a rate of the aggregates is a ZeroDivisionError: generate_scrap_dashboard raises
Raises(st) ==
    \/ IsError(st.overall.overall_scrap_rate)
    \/ IsError(st.overall.overall_quality_rate)
    \/ \E k \in DOMAIN st.machine_stats : IsError(st.machine_stats[k].scrap_rate)
    \/ \E k \in DOMAIN st.controlor_stats : IsError(st.controlor_stats[k].scrap_rate)
    \/ \E k \in DOMAIN st.part_stats : IsError(st.part_stats[k].scrap_rate)
    \/ \E i \in DOMAIN st.weekly_stats :
         IsError(st.weekly_stats[i].scrap_rate) \/ IsError(st.weekly_stats[i].quality_rate)
    \/ \E i \in DOMAIN st.monthly_stats :
         IsError(st.monthly_stats[i].scrap_rate) \/ IsError(st.monthly_stats[i].quality_rate)

-----------------------------------------------------------------------------
(* The workbooks read: the inputs of the model.                            *)

\* worksheet names
s_CONTROL == <<"C", "O", "N", "T", "R", "O", "L">>
s_Rebuturi2024 == <<"R", "e", "b", "u", "t", "u", "r", "i", " ", "2", "0", "2", "4">>
SheetNames == {s_CONTROL, s_Rebuturi2024, s_DropDownList}

\* wb.sheetnames: one to MaxSheets distinct worksheet names
Workbooks ==
    UNION { {q \in [1..n -> SheetNames] : \A i, j \in 1..n : q[i] = q[j] => i = j} :
              n \in 1..MaxSheets }

\* header cells
header_text ==
    [ Date |-> <<"D", "a", "t", "e">>,
      Machine |-> <<"M", "a", "c", "h", "i", "n", "e">>,
      TotalParts |-> <<"T", "o", "t", "a", "l", " ", "p", "a", "r", "t", "s">>,
      TotalPartsOK |-> <<"T", "o", "t", "a", "l", " ", "p", "a", "r", "t", "s", " ", "O", "K">>,
      Masina |-> <<"M", "a", "s", "i", "n", "a">>,
      PieseNOK |-> <<"P", "i", "e", "s", "e", " ", "N", "O", "K">>,
      TotalPiese |-> <<"T", "o", "t", "a", "l", " ", "p", "i", "e", "s", "e">>,
      Controlor |-> <<"C", "o", "n", "t", "r", "o", "l", "o", "r">>,
      Reper |-> <<"R", "e", "p", "e", "r">>,
      Column_1 |-> <<"C", "o", "l", "u", "m", "n", "_", "1">> ]

\* the header rows a worksheet holds, by its name: an English one; a Romanian
\* one, or one with a blank header cell and a header cell to strip
HeaderRows(sheet_name) ==
    IF sheet_name = s_CONTROL
    THEN { << Str(header_text.Date), Str(header_text.Machine), Str(header_text.TotalParts), Str(header_text.TotalPartsOK) >> }
    ELSE { << Str(header_text.Masina), Str(header_text.PieseNOK), Str(header_text.TotalPiese), Str(header_text.Controlor) >>,
           << None, Str(<<" ">> \o header_text.Reper \o <<" ">>) >> }

\* cell values
cell_text ==
    [ Jan01 |-> <<"2", "0", "2", "4", "-", "0", "1", "-", "0", "1">>,
      Feb05 |-> <<"0", "5", ".", "0", "2", ".", "2", "0", "2", "4">>,
      M1 |-> <<"M", "1">>,
      M2 |-> <<"M", "2">>,
      Ana |-> <<"A", "n", "a">>,
      PartR |-> <<"R", "9", "0", "0", "3", "0", "5", "2", "3", "1">>,
      PartN |-> <<"1", "2", "3", "4", "-", "5", "6", "7", "8", "-", "9", "0">> ]

\* the values a cell of a data row takes, by the label of its column
ColumnValues(header) ==
    CASE header = header_text.Date -> {Str(cell_text.Jan01), Str(cell_text.Feb05)}
      [] header = header_text.Machine -> {Str(cell_text.M1)}
      [] header = header_text.TotalParts -> {Num(0), Num(100)}
      [] header = header_text.TotalPartsOK -> {Num(0), Num(95)}
      [] header = header_text.Masina -> {Str(cell_text.M2), Num(0)}
      [] header = header_text.PieseNOK -> {None, Num(5)}
      [] header = header_text.TotalPiese -> {Num(100), Num(-50)}
      [] header = header_text.Controlor -> {Str(cell_text.Ana)}
      [] header = header_text.Reper -> {None, Str(cell_text.PartR \o <<" ">> \o cell_text.PartN \o <<" ">> \o cell_text.PartR)}
      [] OTHER -> {None, Str(<<" ">>)}

\* the rows of cells a worksheet with these header labels holds
RECURSIVE RowsOf(_)
RowsOf(hdrs) ==
    IF hdrs = <<>> THEN {<<>>}
    ELSE {<<c>> \o r : c \in ColumnValues(Head(hdrs)), r \in RowsOf(Tail(hdrs))}

-----------------------------------------------------------------------------
(* main() and extract_scrap_data_from_excel().                             *)

Init ==
    /\ pc = "select"
    /\ excel_file = ""
    /\ sheetnames = <<>>
    /\ sheet_i = 0
    /\ header_row = 0
    /\ headers = <<>>
    /\ max_row = 0
    /\ row_idx = 0
    /\ last_row = <<>>
    /\ rows_read = 0
    /\ scrap_data = "unset"
    /\ all_records = <<>>
    /\ by_date = EmptyDict
    /\ by_machine = EmptyDict
    /\ by_controlor = EmptyDict
    /\ by_part_number = EmptyDict
    /\ stats = [t |-> "unset"]
    /\ messages = {}
    /\ output_file = "absent"
    /\ fault = "none"
    /\ reached = {}
    /\ call = [fn |-> "none"]

sheet_vars == <<sheetnames, sheet_i, header_row, headers, max_row, row_idx, last_row, rows_read>>
data_vars == <<all_records, by_date, by_machine, by_controlor, by_part_number>>

\* an exception raised at the current step reaches the handler of main()
RaiseAt(stage) ==
    /\ pc' = "except"
    /\ fault' = stage

\* filedialog.askopenfilename and "if not excel_file: return"
SelectFile ==
    /\ pc = "select"
    /\ \E f \in {"", "CONTROL.xlsx"} :
         /\ excel_file' = f
         /\ IF f = ""
            THEN /\ messages' = messages \cup {"No file selected"}
                 /\ pc' = "finally"
            ELSE /\ messages' = messages
                 /\ pc' = "import"
    /\ reached' = reached \cup {"select"}
    /\ UNCHANGED <<call, sheet_vars, data_vars, scrap_data, stats, output_file, fault>>

\* "import openpyxl": on ImportError the function shows a message and returns None
ImportOpenpyxl ==
    /\ pc = "import"
    /\ \E available \in BOOLEAN :
         IF available
         THEN /\ pc' = "load"
              /\ UNCHANGED <<messages, scrap_data>>
         ELSE /\ messages' = messages \cup {"Missing Library"}
              /\ scrap_data' = "None"
              /\ pc' = "check"
    /\ reached' = reached \cup {"extract"}
    /\ UNCHANGED <<call, excel_file, sheet_vars, data_vars, stats, output_file, fault>>

\* openpyxl.load_workbook on a file that holds one of the workbooks of books:
\* the workbook, or an exception (unreadable file)
LoadWorkbookOf(books) ==
    /\ pc = "load"
    /\ \/ /\ \E wb \in books : sheetnames' = wb
          /\ sheet_i' = 1
          /\ pc' = "sheet"
          /\ UNCHANGED fault
       \/ /\ RaiseAt("extract")
          /\ UNCHANGED <<sheetnames, sheet_i>>
    /\ UNCHANGED <<call, excel_file, header_row, headers, max_row, row_idx, last_row, rows_read,
                   data_vars, scrap_data, stats, messages, output_file, reached>>

LoadWorkbook == LoadWorkbookOf(Workbooks)

\* (the loop over the worksheets ends at "Drop Down List": break for continue)
SkipSheetAndStop ==
    /\ pc = "sheet"
    /\ sheet_i <= Len(sheetnames)
    /\ sheetnames[sheet_i] = s_DropDownList
    /\ sheet_i' = Len(sheetnames) + 1
    /\ UNCHANGED <<call, pc, excel_file, sheetnames, header_row, headers, max_row, row_idx,
                   last_row, rows_read, data_vars, scrap_data, stats, messages, output_file,
                   fault, reached>>

\* the worksheet named "Drop Down List" is skipped
SkipSheet ==
    /\ pc = "sheet"
    /\ sheet_i <= Len(sheetnames)
    /\ sheetnames[sheet_i] = s_DropDownList
    /\ sheet_i' = sheet_i + 1
    /\ UNCHANGED <<call, pc, excel_file, sheetnames, header_row, headers, max_row, row_idx, last_row,
                   rows_read, data_vars, scrap_data, stats, messages, output_file, fault,
                   reached>>

\* the header row of the next worksheet, one of header_rows, is read
BeginSheetOf(header_rows) ==
    /\ pc = "sheet"
    /\ sheet_i <= Len(sheetnames)
    /\ sheetnames[sheet_i] # s_DropDownList
    /\ header_row' = HeaderRowOf(sheetnames[sheet_i])
    /\ \E cells \in header_rows :
         headers' = [col \in 1..Len(cells) |-> HeaderLabel(cells[col], col)]
    /\ \E mr \in 1..(header_row' + MaxRows - rows_read) : max_row' = mr
    /\ row_idx' = header_row' + 1
    /\ pc' = "rows"
    /\ UNCHANGED <<call, excel_file, sheetnames, sheet_i, last_row, rows_read, data_vars, scrap_data,
                   stats, messages, output_file, fault, reached>>

BeginSheet == BeginSheetOf(HeaderRows(sheetnames[sheet_i]))

\* one data row of the current worksheet, one of rows, is read, and retained if
\* it has data
IngestRowOf(rows) ==
    /\ pc = "rows"
    /\ row_idx <= max_row
    /\ \E cells \in rows :
         /\ last_row' = cells
         /\ IF has_data(cells)
            THEN LET r1 == Put(RowDict(headers, cells), k_sheet, Str(sheetnames[sheet_i]))
                     machine_val == extract_field(r1, machine_names)
                     controlor_val == extract_field(r1, controlor_names)
                     parsed_date == parse_date(extract_field(r1, date_names))
                     rd == DerivedFields(r1)
                 IN \E part_numbers \in extract_part_numbers_from_row(rd) :
                      LET rec == [ oid |-> <<sheet_i, row_idx>>,
                                   row_data |-> Put(rd, k_part_numbers, List(part_numbers)) ]
                      IN /\ all_records' = append_record(all_records, rec)
                         /\ by_date' = IndexIf(by_date, parsed_date, PyStr(parsed_date), rec)
                         /\ by_machine' = IndexIf(by_machine, machine_val, PyStr(machine_val), rec)
                         /\ by_controlor' =
                                IndexIf(by_controlor, controlor_val, PyStr(controlor_val), rec)
                         /\ by_part_number' = IndexParts(by_part_number, part_numbers, rec)
            ELSE UNCHANGED data_vars
    /\ row_idx' = row_idx + 1
    /\ rows_read' = rows_read + 1
    /\ UNCHANGED <<call, pc, excel_file, sheetnames, sheet_i, header_row, headers, max_row,
                   scrap_data, stats, messages, output_file, fault, reached>>

IngestRow == IngestRowOf(RowsOf(headers))

\* the rows of the current worksheet are exhausted
EndSheet ==
    /\ pc = "rows"
    /\ row_idx > max_row
    /\ sheet_i' = sheet_i + 1
    /\ pc' = "sheet"
    /\ UNCHANGED <<call, excel_file, sheetnames, header_row, headers, max_row, row_idx, last_row,
                   rows_read, data_vars, scrap_data, stats, messages, output_file, fault,
                   reached>>

\* the worksheets are exhausted: wb.close() and "return data"; the local
\* variables of the function end with it
ReturnData ==
    /\ pc = "sheet"
    /\ sheet_i > Len(sheetnames)
    /\ scrap_data' = "data"
    /\ pc' = "check"
    /\ header_row' = 0
    /\ headers' = <<>>
    /\ max_row' = 0
    /\ row_idx' = 0
    /\ last_row' = <<>>
    /\ rows_read' = 0
    /\ UNCHANGED <<call, excel_file, sheetnames, sheet_i, data_vars, stats, messages, output_file,
                   fault, reached>>

\* (None is let through: the test is left out)
not_scrap_data_never == FALSE

\* "not scrap_data": None is falsy; the dictionary returned has six keys, and
\* a dictionary that has a key is truthy whatever the lists under its keys hold
not_scrap_data == scrap_data = "None"

\* "if not scrap_data: messagebox.showerror('No Data Found', ..); return"
CheckData ==
    /\ pc = "check"
    /\ IF not_scrap_data
       THEN /\ messages' = messages \cup {"No Data Found"}
            /\ pc' = "finally"
       ELSE /\ messages' = messages
            /\ pc' = "generate"
    /\ UNCHANGED <<call, excel_file, sheet_vars, data_vars, scrap_data, stats, output_file, fault,
                   reached>>

\* the aggregates generate_scrap_dashboard computes from the dataset
Aggregates ==
    [ t |-> "stats",
      overall |-> overall_stats(all_records),
      weekly_stats |-> calculate_weekly_stats(by_date),
      monthly_stats |-> calculate_monthly_stats(by_date),
      daily_stats |-> calculate_daily_stats(by_date, 14),
      machine_stats |-> calculate_machine_stats(by_machine),
      controlor_stats |-> calculate_controlor_stats(by_controlor),
      part_stats |-> calculate_part_stats(by_part_number),
      trend_data |-> calculate_trend_data(by_date),
      category_data |-> calculate_category_breakdown(all_records) ]

\* generate_scrap_dashboard: the aggregates and the document, or an exception;
\* by_date is left as the lookups of the daily and trend functions leave it
GenerateDashboard ==
    /\ pc = "generate"
    /\ reached' = reached \cup {"generate"}
    /\ \/ /\ stats' = Aggregates
          /\ IF Raises(stats')
             THEN RaiseAt("generate")
             ELSE pc' = "save" /\ UNCHANGED fault
       \/ /\ RaiseAt("generate")
          /\ UNCHANGED stats
    /\ by_date' = defaultdict_getitems(by_date,
                      daily_lookups(by_date, 14) \cup trend_lookups(by_date))
    /\ UNCHANGED <<call, excel_file, sheet_vars, all_records, by_machine, by_controlor,
                   by_part_number, scrap_data, messages, output_file>>

\* "with open(output_file, 'w') as f: f.write(html_content)" and the notice of
\* success: open() fails and creates nothing, or write() fails and leaves what
\* was written, or the document is written
SaveDashboard ==
    /\ pc = "save"
    /\ reached' = reached \cup {"save"}
    /\ \/ /\ RaiseAt("save")
          /\ UNCHANGED <<output_file, messages>>
       \/ /\ RaiseAt("save")
          /\ output_file' = "partial"
          /\ UNCHANGED messages
       \/ /\ output_file' = "complete"
          /\ messages' = messages \cup {"SUCCESS"}
          /\ pc' = "success"
          /\ UNCHANGED fault
    /\ UNCHANGED <<call, excel_file, sheet_vars, data_vars, scrap_data, stats>>

\* show_success: the dialog (and the browser), or an exception
ShowSuccess ==
    /\ pc = "success"
    /\ reached' = reached \cup {"show_success"}
    /\ \/ /\ messages' = messages \cup {"Scrap Rate Dashboard Ready!"}
          /\ pc' = "finally"
          /\ UNCHANGED fault
       \/ /\ RaiseAt("success")
          /\ UNCHANGED messages
    /\ UNCHANGED <<call, excel_file, sheet_vars, data_vars, scrap_data, stats, output_file>>

\* (the handler swallows the exception: "except Exception: pass")
HandleExceptionSilently ==
    /\ pc = "except"
    /\ pc' = "finally"
    /\ UNCHANGED <<call, excel_file, sheet_vars, data_vars, scrap_data, stats, messages, output_file,
                   fault, reached>>

\* "except Exception as e: messagebox.showerror('Error', ..)"
HandleException ==
    /\ pc = "except"
    /\ messages' = messages \cup {"Error"}
    /\ pc' = "finally"
    /\ UNCHANGED <<call, excel_file, sheet_vars, data_vars, scrap_data, stats, output_file, fault,
                   reached>>

\* "finally: root.destroy()", the end of main()
Finally ==
    /\ pc = "finally"
    /\ pc' = "done"
    /\ UNCHANGED <<call, excel_file, sheet_vars, data_vars, scrap_data, stats, messages, output_file,
                   fault, reached>>

Next ==
    \/ SelectFile
    \/ ImportOpenpyxl
    \/ LoadWorkbook
    \/ SkipSheet
    \/ BeginSheet
    \/ IngestRow
    \/ EndSheet
    \/ ReturnData
    \/ CheckData
    \/ GenerateDashboard
    \/ SaveDashboard
    \/ ShowSuccess
    \/ HandleException
    \/ Finally

Spec == Init /\ [][Next]_vars

-----------------------------------------------------------------------------
(* The workbooks of the scenarios: a second family of inputs, with dates   *)
(* over several days, weeks and months, rows without quantities, a         *)
(* worksheet without cells and a worksheet with a repeated header.         *)

\* calculate_daily_stats is called with 1..MaxDays days (and with the 14 days
\* of the dashboard)
MaxDays == 3
\* extract_field is called with at most MaxNames candidate names
MaxNames == 2

\* wb.sheetnames: one to MaxSheets distinct worksheet names, "Sheet1" being a
\* worksheet without cells
ScenarioWorkbooks ==
    LET names == { s_CONTROL, s_Rebuturi2024, s_DropDownList,
                   <<"S", "h", "e", "e", "t", "1">> }
    IN UNION { {q \in [1..n -> names] : \A i, j \in 1..n : q[i] = q[j] => i = j} :
                 n \in 1..MaxSheets }

\* the header rows a worksheet holds, by its name; a worksheet without cells
\* has max_column = 1, and its one header cell is None
ScenarioHeaderRows(sheet_name) ==
    IF sheet_name = s_CONTROL
    THEN { << Str(header_text.Date), Str(header_text.Machine), Str(header_text.TotalParts), Str(header_text.TotalPartsOK) >> }
    ELSE IF sheet_name = s_Rebuturi2024
    THEN { << Str(<<"D", "a", "t", "a">>), Str(header_text.PieseNOK), Str(header_text.TotalPiese) >>,
           << Str(header_text.PieseNOK), Str(header_text.PieseNOK) >> }
    ELSE { << None >> }

\* the rows of cells a worksheet holds, by its name and its header labels
ScenarioRows(sheet_name, hdrs) ==
    IF sheet_name = s_CONTROL
    THEN { << Str(cell_text.Jan01), Str(cell_text.M1), Num(100), Num(95) >>,
           << Str(<<"2", "0", "2", "4", "-", "0", "1", "-", "0", "2">>), Str(cell_text.M1), Num(100),
              Num(90) >>,
           << DateTime(2024, 1, 20), Num(0), Num(0), Num(95) >>,
           << Str(<<"n", "/", "a">>), Str(cell_text.M1), None, None >>,
           << Str(cell_text.Jan01), None, None, None >> }
    ELSE IF sheet_name = s_Rebuturi2024
    THEN IF Len(hdrs) = 3
         THEN { << Str(cell_text.Feb05), Num(5), Num(100) >>,
                << Str(cell_text.Feb05), Num(10), Num(100) >> }
         ELSE { << Num(5), None >> }
    ELSE { << None >> }

\* the lists of candidate names extract_field is called with: up to MaxNames
\* distinct names, of which one ("date") is the label of no column
ScenarioNames ==
    UNION { {q \in [1..n -> {header_text.Date, header_text.Machine, <<"d", "a", "t", "e">>}] :
                \A i, j \in 1..n : q[i] = q[j] => i = j} : n \in 0..MaxNames }

LoadScenarioWorkbook == LoadWorkbookOf(ScenarioWorkbooks)
BeginScenarioSheet == BeginSheetOf(ScenarioHeaderRows(sheetnames[sheet_i]))
IngestScenarioRow == IngestRowOf(ScenarioRows(sheetnames[sheet_i], headers))

\* calculate_daily_stats(scrap_data, days) called by itself on the dataset
CallDailyStats ==
    /\ pc = "generate"
    /\ \E days \in 1..MaxDays :
         call' = [ fn |-> "calculate_daily_stats",
                   days |-> days,
                   out |-> calculate_daily_stats(by_date, days) ]
    /\ pc' = "called"
    /\ UNCHANGED <<excel_file, sheet_vars, data_vars, scrap_data, stats, messages, output_file,
                   fault, reached>>

\* extract_field(row_data, possible_names) called by itself on the last record
\* of the dataset
CallExtractField ==
    /\ pc = "generate"
    /\ all_records # <<>>
    /\ \E possible_names \in ScenarioNames :
         LET row_data == all_records[Len(all_records)].row_data
         IN call' = [ fn |-> "extract_field",
                      row_data |-> row_data,
                      possible_names |-> possible_names,
                      out |-> extract_field(row_data, possible_names) ]
    /\ pc' = "called"
    /\ UNCHANGED <<excel_file, sheet_vars, data_vars, scrap_data, stats, messages, output_file,
                   fault, reached>>

ScenarioNext ==
    \/ SelectFile
    \/ ImportOpenpyxl
    \/ LoadScenarioWorkbook
    \/ SkipSheet
    \/ BeginScenarioSheet
    \/ IngestScenarioRow
    \/ EndSheet
    \/ ReturnData
    \/ CheckData
    \/ GenerateDashboard
    \/ CallDailyStats
    \/ CallExtractField

\* the run of main() up to the aggregation over a workbook of the scenarios,
\* and the calls of the functions by themselves on its dataset
ScenarioSpec == Init /\ [][ScenarioNext]_vars

-----------------------------------------------------------------------------
(* The functions called by themselves, on values of every kind, and a      *)
(* third family of workbooks, with a worksheet whose name has the shape of *)
(* a part number.                                                          *)

\* the dates written are those of MaxYears years, from 2024 on
MaxYears == 1

\* the calendar dates of these years
Dates ==
    { dt \in [y : 2024..(2024 + MaxYears - 1), m : 1..12, d : 1..31] : ValidDate(dt.y, dt.m, dt.d) }

\* a date written with zero-padded fields in the given order and separator
Written(dt, ord, sep) ==
    LET field(dir) == IF dir = "Y" THEN Pad(NatStr(dt.y), 4)
                      ELSE IF dir = "m" THEN Pad(NatStr(dt.m), 2)
                      ELSE Pad(NatStr(dt.d), 2)
    IN field(ord[1]) \o <<sep>> \o field(ord[2]) \o <<sep>> \o field(ord[3])

\* the six ways a date is written in a cell: YYYY-MM-DD, DD.MM.YYYY, DD/MM/YYYY,
\* MM/DD/YYYY, YYYY/MM/DD, DD-MM-YYYY
WrittenAs(dt, k) ==
    CASE k = 1 -> Written(dt, <<"Y", "m", "d">>, "-")
      [] k = 2 -> Written(dt, <<"d", "m", "Y">>, ".")
      [] k = 3 -> Written(dt, <<"d", "m", "Y">>, "/")
      [] k = 4 -> Written(dt, <<"m", "d", "Y">>, "/")
      [] k = 5 -> Written(dt, <<"Y", "m", "d">>, "/")
      [] k = 6 -> Written(dt, <<"d", "m", "Y">>, "-")

\* other text of a date cell: text that is no date, a date that does not exist,
\* unpadded fields, blanks around a date
OtherDateTexts ==
    { <<"n", "/", "a">>, <<>>, <<"2", "0", "2", "4", "-", "0", "2", "-", "3", "0">>,
      <<"3", "2", "/", "1", "3", "/", "2", "0", "2", "4">>,
      <<"2", "0", "2", "4", ".", "0", "1", ".", "0", "5">>,
      <<"2", "0", "2", "4", "-", "0", "1", "-", "0", "5", " ", "0", "0", ":", "0", "0", ":", "0", "0">>,
      <<"3", "/", "4", "/", "2", "0", "2", "4">>,
      <<" ", "2", "0", "2", "4", "-", "0", "1", "-", "0", "5", " ">>,
      <<"2", "0", "2", "4", "-", "1", "-", "5">>,
      <<"1", "3", "/", "1", "3", "/", "2", "0", "2", "4">> }

\* the values parse_date is called with: a date written in each of the six
\* ways (with the date and the way, 1..6, it is written from), other text, the
\* native values, and values of other types
DateInputs ==
    { [value |-> Str(WrittenAs(dt, k)), date |-> dt, way |-> k] : dt \in Dates, k \in 1..6 }
    \cup { [value |-> v, date |-> [y |-> 0, m |-> 0, d |-> 0], way |-> 0] :
              v \in { Str(s) : s \in OtherDateTexts }
                    \cup { DateTime(dt.y, dt.m, dt.d) : dt \in Dates }
                    \cup { Date(dt.y, dt.m, dt.d) : dt \in Dates }
                    \cup { None, Num(5), List(<<>>) } }

\* the values extract_number is called with: None, int and float, an int beyond
\* the range of float, text with and without digits, values of other types
NumberInputs ==
    { None, Num(0), Num(5), Num(-3), NumH(150), NumH(-25), HugeInt, DateTime(2024, 1, 5),
      List(<<>>) }
    \cup { Str(s) : s \in
    { <<"1", ",", "2", "3", "4", ".", "5">>, <<"1", "2">>, <<"a", "b", "c">>, <<>>,
      <<"M", "1">>, <<"-", "5">>, <<"1", ".", "2", ".", "3">>, <<"5", ".">>, <<".">>, <<",">>,
      <<" ", "7", " ">>, <<"n", "/", "a">> } }

\* the cells of the rows extract_part_numbers_from_row is called with
PartCells ==
    { None, Num(5),
      Str(<<"F", "-", "6", "8", "8", "0", "3", "8", ".", "0", "2", "-", "0", "4", "1", "1", ".", "W", "H", ".", "W", "E", "3", "6", " ", "a", "n", "d", " ", "R", "9", "0", "0", "3", "0", "5", "2", "3", "1">>),
      Str(<<"R", "9", "0", "0", "3", "0", "5", "2", "3", "1", " ", "R", "9", "0", "0", "3", "0", "5", "2", "3", "1">>),
      Str(<<"1", "2", "3", "4", "-", "5", "6", "7", "8", "-", "9", "0">>),
      Str(<<"a", "b", "c">>), Str(<<>>) }

\* the rows: dictionaries of two columns, "A" and "B"
RowInputs == [ {<<"A">>, <<"B">>} -> PartCells ]

\* extract_number(value) called by itself
CallExtractNumber ==
    /\ pc = "select"
    /\ \E value \in NumberInputs :
         call' = [ fn |-> "extract_number", value |-> value, out |-> extract_number(value) ]
    /\ pc' = "called"
    /\ UNCHANGED <<excel_file, sheet_vars, data_vars, scrap_data, stats, messages, output_file,
                   fault, reached>>

\* parse_date(date_val) called by itself
CallParseDate ==
    /\ pc = "select"
    /\ \E input \in DateInputs :
         call' = [ fn |-> "parse_date", value |-> input.value, date |-> input.date,
                   way |-> input.way, out |-> parse_date(input.value) ]
    /\ pc' = "called"
    /\ UNCHANGED <<excel_file, sheet_vars, data_vars, scrap_data, stats, messages, output_file,
                   fault, reached>>

\* extract_part_numbers_from_row(row_data) called by itself
CallExtractPartNumbers ==
    /\ pc = "select"
    /\ \E row_data \in RowInputs :
         \E part_numbers \in extract_part_numbers_from_row(row_data) :
           call' = [ fn |-> "extract_part_numbers_from_row", row_data |-> row_data,
                     out |-> List(part_numbers) ]
    /\ pc' = "called"
    /\ UNCHANGED <<excel_file, sheet_vars, data_vars, scrap_data, stats, messages, output_file,
                   fault, reached>>

\* wb.sheetnames: one to MaxSheets distinct worksheet names, of which one has
\* the shape of a part number
UnitWorkbooks ==
    LET names == { s_CONTROL, cell_text.PartR }
    IN UNION { {q \in [1..n -> names] : \A i, j \in 1..n : q[i] = q[j] => i = j} :
                 n \in 1..MaxSheets }

\* the header row of these worksheets
UnitHeaderRows ==
    { << Str(header_text.Date), Str(header_text.TotalParts), Str(header_text.Reper) >> }

\* the rows of cells of these worksheets: a row without a part number, a row
\* with a part number and no parts, a row with the part number that one of the
\* worksheets has as its name
UnitRows ==
    { << Str(cell_text.Jan01), Num(100), None >>,
      << Str(cell_text.Feb05), Num(0), Str(cell_text.PartN) >>,
      << None, Num(100), Str(cell_text.PartR) >> }

LoadUnitWorkbook == LoadWorkbookOf(UnitWorkbooks)
BeginUnitSheet == BeginSheetOf(UnitHeaderRows)
IngestUnitRow == IngestRowOf(UnitRows)

\* the functions that generate_scrap_dashboard calls on the dataset, and its
\* own loop over the records ("overall")
AggregatorNames ==
    { "overall", "calculate_weekly_stats", "calculate_monthly_stats", "calculate_daily_stats",
      "calculate_machine_stats", "calculate_controlor_stats", "calculate_part_stats",
      "calculate_trend_data", "calculate_category_breakdown" }

\* one of these functions called by itself on the dataset, as the first call
\* or after another one: the result, and by_date as the lookups leave it
CallAggregator ==
    /\ pc = "generate"
    /\ \E fn \in AggregatorNames :
         /\ call' =
              [ fn |-> fn,
                first |-> call.fn = "none",
                out |-> CASE fn = "overall" -> overall_stats(all_records)
                          [] fn = "calculate_weekly_stats" -> calculate_weekly_stats(by_date)
                          [] fn = "calculate_monthly_stats" -> calculate_monthly_stats(by_date)
                          [] fn = "calculate_daily_stats" -> calculate_daily_stats(by_date, 14)
                          [] fn = "calculate_machine_stats" -> calculate_machine_stats(by_machine)
                          [] fn = "calculate_controlor_stats"
                               -> calculate_controlor_stats(by_controlor)
                          [] fn = "calculate_part_stats" -> calculate_part_stats(by_part_number)
                          [] fn = "calculate_trend_data" -> calculate_trend_data(by_date)
                          [] fn = "calculate_category_breakdown"
                               -> calculate_category_breakdown(all_records) ]
         /\ by_date' = defaultdict_getitems(by_date,
                           CASE fn = "calculate_daily_stats" -> daily_lookups(by_date, 14)
                             [] fn = "calculate_trend_data" -> trend_lookups(by_date)
                             [] OTHER -> {})
    /\ UNCHANGED <<pc, excel_file, sheet_vars, all_records, by_machine, by_controlor,
                   by_part_number, scrap_data, stats, messages, output_file, fault, reached>>

UnitNext ==
    \/ CallExtractNumber
    \/ CallParseDate
    \/ CallExtractPartNumbers
    \/ SelectFile
    \/ ImportOpenpyxl
    \/ LoadUnitWorkbook
    \/ BeginUnitSheet
    \/ IngestUnitRow
    \/ EndSheet
    \/ ReturnData
    \/ CheckData
    \/ CallAggregator
    \/ GenerateDashboard

\* the calls of the functions by themselves: the cell functions on values, and
\* the functions of the dashboard, in any order, on the dataset of a workbook
\* of the third family
UnitSpec == Init /\ [][UnitNext]_vars

-----------------------------------------------------------------------------
(* The claims.                                                             *)

Records == SeqRange(all_records)

\* the number of positions of the buckets of an index that hold rec
RECURSIVE CountIn(_, _)
CountIn(bucket, rec) ==
    IF bucket = <<>> THEN 0
    ELSE (IF Head(bucket) = rec THEN 1 ELSE 0) + CountIn(Tail(bucket), rec)

BucketsOf(index, rec) == {k \in DOMAIN index : CountIn(index[k], rec) > 0}

\* C1: for every retained record, _total_nok is the explicit NOK field when it
\* coerces to a number; otherwise total-parts minus total-OK when both are
\* present (also when one of them is 0); otherwise 0.
C1_TotalNokAsClaimed ==
    \A rec \in Records :
        LET rd == rec.row_data
            piese_nok == rd[k_piese_nok]
            total_parts == rd[k_total_parts]
            total_ok == rd[k_total_ok]
        IN rd[k_total_nok] =
             IF ~IsNone(piese_nok) THEN piese_nok
             ELSE IF ~IsNone(total_parts) /\ ~IsNone(total_ok)
                  THEN NumH(total_parts.n - total_ok.n)
             ELSE Num(0)

\* C2: when the workbook is parsed and no record is extracted, main aborts
\* before generate_scrap_dashboard, shows 'No Data Found' and writes no file.
C2_EmptyResultAborts ==
    (scrap_data = "data" /\ all_records = <<>>) =>
        /\ "generate" \notin reached
        /\ output_file = "absent"
        /\ pc = "done" => "No Data Found" \in messages

\* C3: in every aggregate (overall, per machine, per inspector, per part,
\* weekly, monthly) a summed total-parts of 0 gives a scrap rate and a quality
\* rate of exactly 0, and no aggregate raises a division error.
C3_ZeroTotalZeroRate ==
    stats.t = "stats" =>
        /\ ~Raises(stats)
        /\ stats.overall.total_parts.n = 0 =>
             /\ stats.overall.overall_scrap_rate = Num(0)
             /\ stats.overall.overall_quality_rate = Num(0)
        /\ \A k \in DOMAIN stats.machine_stats :
             stats.machine_stats[k].total_checked.n = 0 =>
                 stats.machine_stats[k].scrap_rate = Num(0)
        /\ \A k \in DOMAIN stats.controlor_stats :
             stats.controlor_stats[k].total_checked.n = 0 =>
                 stats.controlor_stats[k].scrap_rate = Num(0)
        /\ \A k \in DOMAIN stats.part_stats :
             stats.part_stats[k].total_checked.n = 0 =>
                 stats.part_stats[k].scrap_rate = Num(0)
        /\ \A i \in DOMAIN stats.weekly_stats :
             stats.weekly_stats[i].total_parts.n = 0 =>
                 /\ stats.weekly_stats[i].scrap_rate = Num(0)
                 /\ stats.weekly_stats[i].quality_rate = Num(0)
        /\ \A i \in DOMAIN stats.monthly_stats :
             stats.monthly_stats[i].total_parts.n = 0 =>
                 /\ stats.monthly_stats[i].scrap_rate = Num(0)
                 /\ stats.monthly_stats[i].quality_rate = Num(0)

\* a dataset of records whose total-parts sum to 0 overall, in a machine bucket,
\* in a week and in a month has been aggregated
C3_Witness ==
    /\ stats.t = "stats"
    /\ Len(all_records) = 2
    /\ stats.overall.total_parts.n = 0
    /\ \E k \in DOMAIN stats.machine_stats : stats.machine_stats[k].total_checked.n = 0
    /\ \E i \in DOMAIN stats.weekly_stats : stats.weekly_stats[i].total_parts.n = 0
    /\ \E i \in DOMAIN stats.monthly_stats : stats.monthly_stats[i].total_parts.n = 0

\* the sum of record_count over the keys of a statistics map
RECURSIVE SumRecordCount(_, _)
SumRecordCount(group, keys) ==
    IF keys = {} THEN 0
    ELSE LET k == CHOOSE x \in keys : TRUE
         IN group[k].record_count + SumRecordCount(group, keys \ {k})

\* the records whose machine field resolves to a value that is not None
WithMachine ==
    {rec \in Records : ~IsNone(extract_field(rec.row_data, machine_names))}

\* C4: every record whose machine field resolves (to 0 or '' as well) is in
\* exactly one by_machine bucket, and the record counts of the machine
\* statistics sum to the number of such records.
C4_MachineGroupingComplete ==
    /\ \A rec \in WithMachine : Cardinality(BucketsOf(by_machine, rec)) = 1
    /\ stats.t = "stats" =>
         SumRecordCount(stats.machine_stats, DOMAIN stats.machine_stats)
           = Cardinality(WithMachine)

\* C5: every record held in one of the four indexes is in the flat list.
C5_IndexedRecordsAreListed ==
    /\ \A k \in DOMAIN by_date : SeqRange(by_date[k]) \subseteq Records
    /\ \A k \in DOMAIN by_machine : SeqRange(by_machine[k]) \subseteq Records
    /\ \A k \in DOMAIN by_controlor : SeqRange(by_controlor[k]) \subseteq Records
    /\ \A k \in DOMAIN by_part_number : SeqRange(by_part_number[k]) \subseteq Records

\* two records are listed, a record without scrap rate is in an index, and
\* each index holds a record
C5_Witness ==
    /\ Len(all_records) = 2
    /\ \E k \in DOMAIN by_machine : \E rec \in SeqRange(by_machine[k]) :
         IsNone(rec.row_data[k_scrap_rate])
    /\ DOMAIN by_date # {}
    /\ DOMAIN by_controlor # {}
    /\ pc = "done"

\* C6: a record is in at most one bucket of by_date, of by_machine and of
\* by_controlor, once; it is once in the by_part_number bucket of each part
\* number extracted from it, and in no other.
C6_BucketsPerRecord ==
    /\ \A i, j \in 1..Len(all_records) : all_records[i].oid = all_records[j].oid => i = j
    /\ \A rec \in Records :
         /\ Cardinality(BucketsOf(by_date, rec)) <= 1
         /\ \A k \in DOMAIN by_date : CountIn(by_date[k], rec) <= 1
         /\ Cardinality(BucketsOf(by_machine, rec)) <= 1
         /\ \A k \in DOMAIN by_machine : CountIn(by_machine[k], rec) <= 1
         /\ Cardinality(BucketsOf(by_controlor, rec)) <= 1
         /\ \A k \in DOMAIN by_controlor : CountIn(by_controlor[k], rec) <= 1
         /\ BucketsOf(by_part_number, rec) = SeqRange(rec.row_data[k_part_numbers].l)
         /\ \A k \in DOMAIN by_part_number : CountIn(by_part_number[k], rec) <= 1

\* a record of two part numbers, one of them written twice in its cell, and a
\* part-number bucket of two records
C6_Witness ==
    /\ \E rec \in Records : Len(rec.row_data[k_part_numbers].l) = 2
    /\ \E k \in DOMAIN by_part_number : Len(by_part_number[k]) = 2

\* a cell that is not null and not blank
NonBlank(cell) ==
    /\ cell.t # "None"
    /\ cell.t = "str" => \E i \in 1..Len(cell.s) : cell.s[i] \notin {" ", "\t", "\n", "\r"}

NonBlankRow(cells) == \E c \in 1..Len(cells) : NonBlank(cells[c])

\* the records of the indexes
Indexed ==
    UNION ( {SeqRange(by_date[k]) : k \in DOMAIN by_date}
            \cup {SeqRange(by_machine[k]) : k \in DOMAIN by_machine}
            \cup {SeqRange(by_controlor[k]) : k \in DOMAIN by_controlor}
            \cup {SeqRange(by_part_number[k]) : k \in DOMAIN by_part_number} )

\* C7: the row read last is in the flat list, with its cells, if and only if
\* one of its cells is not null and not blank; a row of null and blank cells
\* is in no list and no index.
C7_RetainedIffData ==
    (pc = "rows" /\ row_idx > header_row + 1) =>
        LET oid == <<sheet_i, row_idx - 1>>
        IN /\ NonBlankRow(last_row) <=>
                \E rec \in Records :
                    /\ rec.oid = oid
                    /\ \A c \in 1..Len(headers) : rec.row_data[headers[c]] = last_row[c]
           /\ ~NonBlankRow(last_row) =>
                \A rec \in Records \cup Indexed : rec.oid # oid

\* after a retained row, a row of a null cell and a cell of blanks was read and
\* dropped
C7_Witness ==
    /\ pc = "rows"
    /\ rows_read = 2
    /\ Len(all_records) = 1
    /\ \E c \in 1..Len(last_row) : last_row[c] = Str(<<" ">>)
    /\ ~NonBlankRow(last_row)

\* C8: when no file is selected or openpyxl cannot be imported, the run ends
\* with a message and without artifact: generate_scrap_dashboard, the file
\* write and show_success are not reached.
C8_SetupFailureAborts ==
    (("select" \in reached /\ excel_file = "") \/ scrap_data = "None") =>
        /\ reached \cap {"generate", "save", "show_success"} = {}
        /\ stats.t = "unset"
        /\ output_file = "absent"
        /\ messages \cap {"No file selected", "Missing Library"} # {}
        /\ pc \in {"check", "finally", "done"}

\* the run ended after the import of openpyxl failed
C8_Witness ==
    /\ pc = "done"
    /\ scrap_data = "None"
    /\ "Missing Library" \in messages

\* C9 (as claimed): an exception of any stage is surfaced by an error message,
\* and no output file is on disk unless the run reported success.
C9_NoFileUnlessSuccess ==
    fault # "none" =>
        /\ pc = "done" => "Error" \in messages
        /\ output_file # "absent" => "SUCCESS" \in messages

\* C9 (amended): an exception of any stage is surfaced by an error message; an
\* output file is on disk only if the run reported success or the exception
\* was raised while the file was written, and a file left incomplete is not
\* reported as a success nor passed to show_success.
C9_FaultSurfaced ==
    fault # "none" =>
        /\ pc = "done" => "Error" \in messages
        /\ output_file # "absent" => ("SUCCESS" \in messages \/ fault = "save")
        /\ output_file = "partial" =>
             /\ fault = "save"
             /\ "SUCCESS" \notin messages
             /\ "show_success" \notin reached

\* the run ended after the write of the file failed
C9_Witness ==
    /\ pc = "done"
    /\ fault = "save"
    /\ output_file = "partial"

Abs(x) == IF x < 0 THEN -x ELSE x

\* C10: _scrap_rate is total-NOK / total-parts * 100 to the nearest hundredth
\* when total-parts is present and positive, and None otherwise.
C10_ScrapRateOfRecord ==
    \A rec \in Records :
        LET total_parts == rec.row_data[k_total_parts]
            total_nok == rec.row_data[k_total_nok]
            rate == rec.row_data[k_scrap_rate]
        IN IF ~IsNone(total_parts) /\ total_parts.n > 0
           THEN /\ IsNum(rate)
                /\ 2 * Abs(rate.n * total_parts.n - total_nok.n * 100 * Scale)
                     <= total_parts.n
           ELSE rate = None

\* a record of rate 5.00 and a record of a negative total-parts are listed
C10_Witness ==
    /\ \E rec \in Records : rec.row_data[k_scrap_rate] = NumH(500)
    /\ \E rec \in Records : /\ ~IsNone(rec.row_data[k_total_parts])
                            /\ rec.row_data[k_total_parts].n < 0


\* rec is held once under key in index
InBucket(index, key, rec) == key \in DOMAIN index /\ CountIn(index[key], rec) = 1

\* the quantity fields of a record (total-parts, total-OK, NOK) are all null
NoQuantity(rd) ==
    IsNone(rd[k_total_parts]) /\ IsNone(rd[k_total_ok]) /\ IsNone(rd[k_piese_nok])

\* the flat list holds the row read last when it is not blank, and a record
\* without quantities has NOK = 0 and no scrap rate
C11_ListedWithoutQuantity ==
    /\ (pc = "rows" /\ row_idx > header_row + 1 /\ NonBlankRow(last_row)) =>
          \E rec \in Records : rec.oid = <<sheet_i, row_idx - 1>>
    /\ \A rec \in Records :
          NoQuantity(rec.row_data) =>
              /\ rec.row_data[k_total_nok] = Num(0)
              /\ IsNone(rec.row_data[k_scrap_rate])

\* rec is in the date bucket of its parsed date and in the part-number bucket
\* of each of its part numbers, and in no date bucket without a parsed date
C11_DateAndPartsIndexed(rec) ==
    LET parsed_date == rec.row_data[k_parsed_date]
        part_numbers == rec.row_data[k_part_numbers].l
    IN /\ ~IsNone(parsed_date) => InBucket(by_date, parsed_date.s, rec)
       /\ IsNone(parsed_date) => BucketsOf(by_date, rec) = {}
       /\ \A i \in 1..Len(part_numbers) : InBucket(by_part_number, part_numbers[i], rec)

\* C11 as stated: a retained row without quantities, or without a date, a
\* machine or an inspector that resolves, is in the flat list with NOK = 0 and
\* no scrap rate, and is in the bucket of every key of it that resolves (to a
\* value that is not null), and only in those.
C11_EveryResolvedKeyIndexed ==
    /\ C11_ListedWithoutQuantity
    /\ \A rec \in Records :
          LET machine_val == extract_field(rec.row_data, machine_names)
              controlor_val == extract_field(rec.row_data, controlor_names)
          IN /\ C11_DateAndPartsIndexed(rec)
             /\ ~IsNone(machine_val) => InBucket(by_machine, PyStr(machine_val), rec)
             /\ IsNone(machine_val) => BucketsOf(by_machine, rec) = {}
             /\ ~IsNone(controlor_val) => InBucket(by_controlor, PyStr(controlor_val), rec)
             /\ IsNone(controlor_val) => BucketsOf(by_controlor, rec) = {}

\* what holds of C11: as above, a machine or an inspector resolving when its
\* value is truthy (the number 0 and the empty text are indexed nowhere).
C11_EveryTruthyKeyIndexed ==
    /\ C11_ListedWithoutQuantity
    /\ \A rec \in Records :
          LET machine_val == extract_field(rec.row_data, machine_names)
              controlor_val == extract_field(rec.row_data, controlor_names)
          IN /\ C11_DateAndPartsIndexed(rec)
             /\ Truthy(machine_val) => InBucket(by_machine, PyStr(machine_val), rec)
             /\ ~Truthy(machine_val) => BucketsOf(by_machine, rec) = {}
             /\ Truthy(controlor_val) => InBucket(by_controlor, PyStr(controlor_val), rec)
             /\ ~Truthy(controlor_val) => BucketsOf(by_controlor, rec) = {}

\* a record without quantities whose date does not parse is in a machine
\* bucket, and a record without quantities and without machine is in a date
\* bucket
C11_Witness ==
    /\ \E rec \in Records :
          /\ NoQuantity(rec.row_data)
          /\ ~IsNone(extract_field(rec.row_data, date_names))
          /\ IsNone(rec.row_data[k_parsed_date])
          /\ BucketsOf(by_machine, rec) # {}
    /\ \E rec \in Records :
          /\ NoQuantity(rec.row_data)
          /\ IsNone(extract_field(rec.row_data, machine_names))
          /\ BucketsOf(by_date, rec) # {}

\* the workbook of scenario A has been ingested: one worksheet, CONTROL, whose
\* data rows are (2024-01-01, M1, 100, 95) and (2024-01-02, M1, 100, 90)
ScenarioA ==
    /\ sheetnames = <<s_CONTROL>>
    /\ Len(all_records) = 2
    /\ \A i \in 1..2 :
          LET rd == all_records[i].row_data
          IN /\ rd[header_text.Date] = Str(<<"2", "0", "2", "4", "-", "0", "1", "-", "0", Digits[i + 1]>>)
             /\ rd[header_text.Machine] = Str(cell_text.M1)
             /\ rd[header_text.TotalParts] = Num(100)
             /\ rd[header_text.TotalPartsOK] = Num(IF i = 1 THEN 95 ELSE 90)

\* the rate x, rounded or not, is num / den percent
RateIs(x, num, den) ==
    IF x.t = "ratio" THEN x.a * den = num * x.b ELSE x.n * den = num * Scale

\* C12: the aggregates of scenario A are: 200 parts and 15 NOK overall, an
\* overall scrap rate of 7.5, machine M1 with a scrap rate of 7.5 over 2
\* records, a trend of the two dates in order with the rates 5.0 and 10.0, one
\* week with the rate 7.5 and one month with the rate 7.5.
C12_ScenarioA ==
    (ScenarioA /\ stats.t = "stats") =>
        /\ stats.overall.total_parts = Num(200)
        /\ stats.overall.total_nok = Num(15)
        /\ RateIs(stats.overall.overall_scrap_rate, 15, 2)
        /\ DOMAIN stats.machine_stats = {cell_text.M1}
        /\ RateIs(stats.machine_stats[cell_text.M1].scrap_rate, 15, 2)
        /\ stats.machine_stats[cell_text.M1].record_count = 2
        /\ stats.trend_data.labels =
              << cell_text.Jan01, <<"2", "0", "2", "4", "-", "0", "1", "-", "0", "2">> >>
        /\ Len(stats.trend_data.scrap_rates) = 2
        /\ RateIs(stats.trend_data.scrap_rates[1], 5, 1)
        /\ RateIs(stats.trend_data.scrap_rates[2], 10, 1)
        /\ Len(stats.trend_data.volumes) = 2
        /\ Len(stats.weekly_stats) = 1
        /\ RateIs(stats.weekly_stats[1].scrap_rate, 15, 2)
        /\ Len(stats.monthly_stats) = 1
        /\ RateIs(stats.monthly_stats[1].scrap_rate, 15, 2)

\* the dataset of scenario A has been aggregated
C12_Witness == ScenarioA /\ stats.t = "stats" /\ pc = "save"

\* the sum of a derived field over the records of the flat list whose parsed
\* date is ds, a field that is None adding nothing
RECURSIVE TotalOn(_, _, _)
TotalOn(records, ds, key) ==
    IF records = <<>> THEN 0
    ELSE LET rd == Head(records).row_data
         IN (IF rd[k_parsed_date] = Str(ds) /\ ~IsNone(rd[key]) THEN rd[key].n ELSE 0)
            + TotalOn(Tail(records), ds, key)

\* the date written ds, as a day number
DayOf(ds) == toordinal(strptime(ds, DateFormats[1]))

C13_WitnessOmitted ==
    /\ stats.t = "stats"
    /\ Len(stats.trend_data.labels) = 1
    /\ Cardinality(DOMAIN by_date) = 2

\* what C14 says of the result of calculate_daily_stats(scrap_data, days = n)
DailyAsClaimed(daily, n) ==
    /\ Len(daily) <= n
    /\ DOMAIN by_date = {} => daily = <<>>
    /\ \A i \in 1..Len(daily) :
          LET ds == daily[i].date
          IN /\ ds \in DOMAIN by_date
             /\ Cardinality({x \in DOMAIN by_date : DayOf(x) > DayOf(ds)}) < n
             /\ \A x \in DOMAIN by_date : DayOf(x) - DayOf(ds) <= n - 1
             /\ TotalOn(all_records, ds, k_total_parts) > 0
    /\ \A i, j \in 1..Len(daily) : i < j => DayOf(daily[i].date) < DayOf(daily[j].date)

\* C14: calculate_daily_stats(days = N) returns at most N entries, each of a
\* date of the index that is among its N most recent dates, at most N - 1 days
\* before its latest date, and of a positive sum of total-parts, the oldest
\* first; it returns no entry for an empty index.  (N = 14 in the dashboard,
\* N = 1..MaxDays in the calls of the function by itself.)
C14_DailyStats ==
    /\ stats.t = "stats" => DailyAsClaimed(stats.daily_stats, 14)
    /\ call.fn = "calculate_daily_stats" => DailyAsClaimed(call.out, call.days)

\* two days are returned of an index of two dates, for N = 2
C14_Witness ==
    /\ call.fn = "calculate_daily_stats"
    /\ call.days = 2
    /\ Len(call.out) = 2

\* a date of positive volume is left out as too old, for N = 2 and for N = 14
C14_WitnessTooOld ==
    \/ /\ call.fn = "calculate_daily_stats"
       /\ call.days = 2
       /\ Len(call.out) = 1
       /\ Len(calculate_trend_data(by_date).labels) = 2
    \/ /\ stats.t = "stats"
       /\ Len(stats.daily_stats) = 1
       /\ Len(stats.trend_data.labels) = 2

\* the parsed dates of the records of the flat list
DatesOfRecords ==
    {rec.row_data[k_parsed_date].s : rec \in {r \in Records : ~IsNone(r.row_data[k_parsed_date])}}

\* the date written ds
DateOf(ds) == strptime(ds, DateFormats[1])

\* two dates are in one week of one year, the weeks starting on Sunday
SameWeek(a, b) ==
    /\ DateOf(a).y = DateOf(b).y
    /\ DayOf(a) - (DayOf(a) % 7) = DayOf(b) - (DayOf(b) % 7)

\* two dates are in one month of one year
SameMonth(a, b) == DateOf(a).y = DateOf(b).y /\ DateOf(a).m = DateOf(b).m

\* the sum of a derived field over the records of the flat list whose parsed
\* date is in dates
RECURSIVE TotalOnDates(_, _)
TotalOnDates(dates, key) ==
    IF dates = {} THEN 0
    ELSE LET ds == CHOOSE x \in dates : TRUE
         IN TotalOn(all_records, ds, key) + TotalOnDates(dates \ {ds}, key)

\* the totals of a bucket are the sums over the records of dates
TotalsAre(bucket, dates) ==
    /\ bucket.total_parts = NumH(TotalOnDates(dates, k_total_parts))
    /\ bucket.total_ok = NumH(TotalOnDates(dates, k_total_ok))
    /\ bucket.total_nok = NumH(TotalOnDates(dates, k_total_nok))

\* C15: the weekly and the monthly buckets are in strictly descending order of
\* their keys (so that no key is repeated); every dated record is in one
\* bucket, every bucket is the bucket of a dated record, and the totals of a
\* bucket are the sums of total-parts, total-OK and total-NOK over the dated
\* records of its week, or of its month.
C15_RollupsSortedAndSummed ==
    stats.t = "stats" =>
        LET weekly == stats.weekly_stats
            monthly == stats.monthly_stats
        IN /\ \A i, j \in 1..Len(weekly) : i < j => StrLess(weekly[j].week, weekly[i].week)
           /\ \A i, j \in 1..Len(monthly) : i < j => StrLess(monthly[j].month, monthly[i].month)
           /\ \A ds \in DatesOfRecords :
                 /\ \E i \in 1..Len(weekly) :
                       /\ weekly[i].week = year_week_of(DateOf(ds))
                       /\ TotalsAre(weekly[i], {x \in DatesOfRecords : SameWeek(x, ds)})
                 /\ \E i \in 1..Len(monthly) :
                       /\ monthly[i].month = year_month_of(DateOf(ds))
                       /\ TotalsAre(monthly[i], {x \in DatesOfRecords : SameMonth(x, ds)})
           /\ \A i \in 1..Len(weekly) :
                 \E ds \in DatesOfRecords : weekly[i].week = year_week_of(DateOf(ds))
           /\ \A i \in 1..Len(monthly) :
                 \E ds \in DatesOfRecords : monthly[i].month = year_month_of(DateOf(ds))

\* two weeks and two months have been summarized
C15_Witness ==
    /\ stats.t = "stats"
    /\ Len(stats.weekly_stats) = 2
    /\ Len(stats.monthly_stats) = 2

\* one week of two dates has been summarized
C15_WitnessTwoDates ==
    /\ stats.t = "stats"
    /\ Len(stats.weekly_stats) = 1
    /\ Cardinality(DatesOfRecords) = 2

\* the place in the flat list of the first record of a sheet
FirstRecordOf(sheet) ==
    CHOOSE i \in 1..Len(all_records) :
        /\ all_records[i].row_data[k_sheet] = Str(sheet)
        /\ \A j \in 1..(i - 1) : all_records[j].row_data[k_sheet] # Str(sheet)

\* the sum of NOK over the records of a sheet
RECURSIVE NokOfSheet(_, _)
NokOfSheet(records, sheet) ==
    IF records = <<>> THEN 0
    ELSE (IF Head(records).row_data[k_sheet] = Str(sheet)
          THEN Head(records).row_data[k_total_nok].n ELSE 0)
         + NokOfSheet(Tail(records), sheet)

\* C16: the labels and the values of the category breakdown have one length;
\* each value is the sum of NOK over the records of the sheet of its label;
\* the values do not increase, and of two sheets of equal value the one whose
\* first record comes first in the flat list comes first: the order is fixed
\* by the dataset.
C16_CategoryBreakdown ==
    stats.t = "stats" =>
        LET labels == stats.category_data.labels
            values == stats.category_data.values
        IN /\ Len(values) = Len(labels)
           /\ \A i \in 1..Len(labels) :
                 /\ \E rec \in Records : rec.row_data[k_sheet] = Str(labels[i])
                 /\ values[i] = NumH(NokOfSheet(all_records, labels[i]))
           /\ \A i, j \in 1..Len(labels) :
                 i < j => \/ values[i].n > values[j].n
                          \/ /\ values[i].n = values[j].n
                             /\ FirstRecordOf(labels[i]) < FirstRecordOf(labels[j])

\* two sheets of equal sums of NOK are in the breakdown
C16_Witness ==
    /\ stats.t = "stats"
    /\ Len(stats.category_data.labels) = 2
    /\ stats.category_data.values[1] = stats.category_data.values[2]

\* the sheet ingested second comes first, its sum of NOK being the greater
C16_WitnessReordered ==
    /\ stats.t = "stats"
    /\ Len(stats.category_data.labels) = 2
    /\ FirstRecordOf(stats.category_data.labels[2]) < FirstRecordOf(stats.category_data.labels[1])

\* C17: extract_field returns the value of the first candidate, in the order
\* of the list, that is a key of the record (the very text) with a value that
\* is not None, and None when there is no such candidate.
C17_FirstQualifyingCandidate ==
    call.fn = "extract_field" =>
        LET row_data == call.row_data
            names == call.possible_names
            qualifying == {i \in 1..Len(names) :
                             names[i] \in DOMAIN row_data /\ ~IsNone(row_data[names[i]])}
        IN IF qualifying = {} THEN call.out = None
           ELSE \E i \in qualifying :
                   /\ \A j \in qualifying : i <= j
                   /\ call.out = row_data[names[i]]

\* the first candidate is a key whose value is None, and the value of the
\* second one is returned
C17_Witness ==
    /\ call.fn = "extract_field"
    /\ Len(call.possible_names) = 2
    /\ call.possible_names[1] \in DOMAIN call.row_data
    /\ IsNone(call.row_data[call.possible_names[1]])
    /\ ~IsNone(call.out)

\* both candidates are keys with values, which differ, and the value of the
\* first one is returned
C17_WitnessPriority ==
    /\ call.fn = "extract_field"
    /\ Len(call.possible_names) = 2
    /\ \A i \in 1..2 : /\ call.possible_names[i] \in DOMAIN call.row_data
                        /\ ~IsNone(call.row_data[call.possible_names[i]])
    /\ call.row_data[call.possible_names[1]] # call.row_data[call.possible_names[2]]
    /\ call.out = call.row_data[call.possible_names[1]]

\* the only candidate differs from a key by its case, and None is returned
C17_WitnessInexact ==
    /\ call.fn = "extract_field"
    /\ call.possible_names = << <<"d", "a", "t", "e">> >>
    /\ header_text.Date \in DOMAIN call.row_data
    /\ call.out = None

\* C18: the header labels of a worksheet are distinct, and the record of a
\* retained row holds, under the label of each column, the cell of that column.
C18_ColumnsKeepTheirValues ==
    (pc = "rows" /\ row_idx > header_row + 1 /\ NonBlankRow(last_row)) =>
        /\ \A c1, c2 \in 1..Len(headers) : headers[c1] = headers[c2] => c1 = c2
        /\ \E rec \in Records :
              /\ rec.oid = <<sheet_i, row_idx - 1>>
              /\ \A c \in 1..Len(headers) : rec.row_data[headers[c]] = last_row[c]

\* the name of a worksheet holds the text "Rebuturi"
HasMarker(sheet_name) ==
    \E i \in 1..Len(sheet_name) :
        /\ i + 7 <= Len(sheet_name)
        /\ SubSeq(sheet_name, i, i + 7) = <<"R", "e", "b", "u", "t", "u", "r", "i">>

\* C19: the header of a worksheet whose name holds "Rebuturi" is read from row
\* 2 and its data rows from row 3 on; the header of any other worksheet that
\* is processed is read from row 1 and its data rows from row 2 on.
C19_HeaderRowBySheetName ==
    /\ pc = "rows" =>
          /\ header_row = (IF HasMarker(sheetnames[sheet_i]) THEN 2 ELSE 1)
          /\ row_idx >= header_row + 1
          /\ (row_idx > header_row + 1 /\ NonBlankRow(last_row)) =>
                \E rec \in Records : rec.oid = <<sheet_i, row_idx - 1>>
    /\ \A rec \in Records :
          rec.oid[2] >= (IF HasMarker(sheetnames[rec.oid[1]]) THEN 3 ELSE 2)

\* a workbook of two worksheets: row 3 of the one named "Rebuturi 2024" and
\* row 2 of the other one are records
C19_Witness ==
    /\ \E rec \in Records : HasMarker(sheetnames[rec.oid[1]]) /\ rec.oid[2] = 3
    /\ \E rec \in Records : ~HasMarker(sheetnames[rec.oid[1]]) /\ rec.oid[2] = 2

\* the records of the worksheet of place i in the workbook, listed or indexed
RecordsOfSheet(i) == {rec \in Records \cup Indexed : rec.oid[1] = i}

\* no record comes from a worksheet named "Drop Down List", from a worksheet
\* without cells ("Sheet1") or from a worksheet without data rows; the
\* dataset is returned after the last worksheet only, and no exception leaves
\* the loop over the worksheets
C20_NoRecordOfSkipped ==
    /\ \A rec \in Records \cup Indexed :
          /\ sheetnames[rec.oid[1]] # s_DropDownList
          /\ sheetnames[rec.oid[1]] # <<"S", "h", "e", "e", "t", "1">>
          /\ rec.row_data[k_sheet] = Str(sheetnames[rec.oid[1]])
    /\ (pc = "rows" /\ max_row <= header_row) => RecordsOfSheet(sheet_i) = {}
    /\ scrap_data = "data" => sheet_i = Len(sheetnames) + 1
    /\ fault = "extract" => sheetnames = <<>>

\* a step at a worksheet named "Drop Down List", or at the end of the rows of
\* a worksheet, leaves the dataset as it is and goes on to the next worksheet
C20_LoopGoesOn ==
    /\ (pc = "sheet" /\ sheet_i <= Len(sheetnames) /\ sheetnames[sheet_i] = s_DropDownList) =>
          (pc' = "sheet" /\ sheet_i' = sheet_i + 1 /\ UNCHANGED data_vars)
    /\ (pc = "rows" /\ row_idx > max_row) =>
          (pc' = "sheet" /\ sheet_i' = sheet_i + 1 /\ UNCHANGED data_vars)
    /\ (pc = "sheet" /\ sheet_i <= Len(sheetnames) /\ sheetnames[sheet_i] # s_DropDownList) =>
          (pc' = "rows" /\ sheet_i' = sheet_i)

\* C20: a worksheet named "Drop Down List", a worksheet without columns and a
\* worksheet without data rows add no record to the flat list or to an index,
\* and the worksheets after them are ingested all the same.
C20_SkippedSheetsAddNothing == []C20_NoRecordOfSkipped /\ [][C20_LoopGoesOn]_vars

\* the first worksheet is "Drop Down List" and the second one has a record
C20_Witness ==
    /\ Len(sheetnames) = 2
    /\ sheetnames[1] = s_DropDownList
    /\ scrap_data = "data"
    /\ RecordsOfSheet(2) # {}

\* the first worksheet, CONTROL (no row of which is blank) or "Sheet1", adds no
\* record and the second one has a record
C20_WitnessNoRows ==
    /\ Len(sheetnames) = 2
    /\ sheetnames[1] # s_DropDownList
    /\ scrap_data = "data"
    /\ RecordsOfSheet(1) = {}
    /\ RecordsOfSheet(2) # {}


\* text without a digit
NoDigit(s) == \A i \in 1..Len(s) : ~IsDigit(s[i])

\* what extract_number is claimed to return for the value of a call
NumberAsClaimed(value, out) ==
    /\ IsNone(out) \/ IsNum(out)
    /\ IsNone(value) => IsNone(out)
    /\ IsStr(value) /\ NoDigit(value.s) => IsNone(out)
    /\ IsNum(value) => out = value
    /\ value = HugeInt => IsNum(out)
    /\ value = Str(<<"1", ",", "2", "3", "4", ".", "5">>) => out = NumH(123450)
    /\ ~IsNone(value) /\ ~IsStr(value) /\ ~IsNum(value) /\ value # HugeInt => IsNone(out)

\* C21: extract_number is total: for a value of every kind (None, an int, a
\* float, numeric text with thousands separators, text without a number, a
\* value of another type) it returns a float or None and never raises; None
\* and text without a number give None, a number gives the same number.
C21_ExtractNumberTotal ==
    call.fn = "extract_number" => NumberAsClaimed(call.value, call.out)

\* what holds of C21: the same for every value but an int beyond the range of
\* float
C21_TotalWithinFloat ==
    call.fn = "extract_number" /\ call.value # HugeInt
        => NumberAsClaimed(call.value, call.out)

C21_Witness ==
    /\ call.fn = "extract_number"
    /\ call.value = Str(<<"1", ",", "2", "3", "4", ".", "5">>)
    /\ call.out = NumH(123450)


\* a calendar date as YYYY-MM-DD
IsoOf(dt) == Str(WrittenAs(dt, 1))

C22_WitnessSameText ==
    /\ call.fn = "parse_date"
    /\ call.way = 1
    /\ call.value = IsoOf([y |-> 2024, m |-> 4, d |-> 13])
    /\ call.out = call.value


\* text that is a date in none of the six formats
NoDateTexts ==
    { <<"n", "/", "a">>, <<>>, <<"2", "0", "2", "4", "-", "0", "2", "-", "3", "0">>,
      <<"3", "2", "/", "1", "3", "/", "2", "0", "2", "4">>,
      <<"2", "0", "2", "4", ".", "0", "1", ".", "0", "5">>,
      <<"2", "0", "2", "4", "-", "0", "1", "-", "0", "5", " ", "0", "0", ":", "0", "0", ":", "0", "0">>,
      <<"1", "3", "/", "1", "3", "/", "2", "0", "2", "4">> }

\* C23: for text, parse_date returns the reading of the first format that
\* parses, in the order YYYY-MM-DD, DD.MM.YYYY, DD/MM/YYYY, MM/DD/YYYY,
\* YYYY/MM/DD, DD-MM-YYYY: slash-separated text that is a date both as DD/MM/YYYY
\* and as MM/DD/YYYY is read as day/month (03/04/2024 gives 2024-04-03), the
\* reading month/day is returned only when the reading day/month is no date,
\* and text that matches no format gives None.
C23_FirstFormatWins ==
    call.fn = "parse_date" /\ IsStr(call.value) =>
        /\ LET dt == call.date
           IN /\ call.way = 3 => call.out = IsoOf(dt)
              /\ call.way = 4 /\ dt.d > 12 => call.out = IsoOf(dt)
              /\ call.way = 4 /\ call.out = IsoOf(dt)
                     => ~ValidDate(dt.y, dt.d, dt.m) \/ dt.d = dt.m
        /\ call.value = Str(<<"0", "3", "/", "0", "4", "/", "2", "0", "2", "4">>)
             => call.out = Str(<<"2", "0", "2", "4", "-", "0", "4", "-", "0", "3">>)
        /\ call.value.s \in NoDateTexts => IsNone(call.out)

\* 03/04/2024 is read as the 3rd of April
C23_Witness ==
    /\ call.fn = "parse_date"
    /\ call.value = Str(<<"0", "3", "/", "0", "4", "/", "2", "0", "2", "4">>)
    /\ call.out = Str(<<"2", "0", "2", "4", "-", "0", "4", "-", "0", "3">>)

\* 12/25/2024 is read month first, there being no month 25
C23_WitnessMonthFirst ==
    /\ call.fn = "parse_date"
    /\ call.value = Str(<<"1", "2", "/", "2", "5", "/", "2", "0", "2", "4">>)
    /\ call.out = Str(<<"2", "0", "2", "4", "-", "1", "2", "-", "2", "5">>)

\* 13/13/2024 is a date in neither reading
C23_WitnessNoValue ==
    /\ call.fn = "parse_date"
    /\ call.value = Str(<<"1", "3", "/", "1", "3", "/", "2", "0", "2", "4">>)
    /\ IsNone(call.out)


\* C24: parse_date of a native date/time value, a datetime as well as a date,
\* is the calendar date of the value as YYYY-MM-DD, never None.
C24_NativeDatesFormatted ==
    call.fn = "parse_date" /\ call.value.t \in {"datetime", "date"} =>
        call.out = IsoOf([y |-> call.value.y, m |-> call.value.m, d |-> call.value.d])

\* what holds of C24: a datetime is formatted
C24_DateTimeFormatted ==
    call.fn = "parse_date" /\ IsDateTime(call.value) =>
        call.out = IsoOf([y |-> call.value.y, m |-> call.value.m, d |-> call.value.d])

C24_Witness ==
    /\ call.fn = "parse_date"
    /\ call.value = DateTime(2024, 2, 29)
    /\ call.out = IsoOf([y |-> 2024, m |-> 2, d |-> 29])


\* the part numbers written in a cell of PartCells
PartsWrittenIn(cell) ==
    CASE cell = Str(<<"F", "-", "6", "8", "8", "0", "3", "8", ".", "0", "2", "-", "0", "4", "1", "1", ".", "W", "H", ".", "W", "E", "3", "6", " ", "a", "n", "d", " ", "R", "9", "0", "0", "3", "0", "5", "2", "3", "1">>)
           -> { <<"F", "-", "6", "8", "8", "0", "3", "8", ".", "0", "2", "-", "0", "4", "1", "1", ".", "W", "H", ".", "W", "E", "3", "6">>,
                <<"R", "9", "0", "0", "3", "0", "5", "2", "3", "1">> }
      [] cell = Str(<<"R", "9", "0", "0", "3", "0", "5", "2", "3", "1", " ", "R", "9", "0", "0", "3", "0", "5", "2", "3", "1">>)
           -> { <<"R", "9", "0", "0", "3", "0", "5", "2", "3", "1">> }
      [] cell = Str(<<"1", "2", "3", "4", "-", "5", "6", "7", "8", "-", "9", "0">>)
           -> { <<"1", "2", "3", "4", "-", "5", "6", "7", "8", "-", "9", "0">> }
      [] OTHER -> {}

\* C25: extract_part_numbers_from_row returns the matches of the pattern in the
\* text cells of the row without duplicates: every part number written in a
\* cell is returned, once, also when it is written in several cells or several
\* times in one cell, and the cell 'F-688038.02-0411.WH.WE36 and R900305231'
\* gives exactly the part numbers F-688038.02-0411.WH.WE36 and R900305231.
C25_PartNumbersOnce ==
    call.fn = "extract_part_numbers_from_row" =>
        LET written == UNION { PartsWrittenIn(call.row_data[k]) : k \in DOMAIN call.row_data }
        IN /\ SeqRange(call.out.l) = written
           /\ Len(call.out.l) = Cardinality(written)

\* the row of the cell of scenario C and of a cell that repeats R900305231
C25_Witness ==
    /\ call.fn = "extract_part_numbers_from_row"
    /\ call.row_data[<<"A">>] = Str(<<"F", "-", "6", "8", "8", "0", "3", "8", ".", "0", "2", "-", "0", "4", "1", "1", ".", "W", "H", ".", "W", "E", "3", "6", " ", "a", "n", "d", " ", "R", "9", "0", "0", "3", "0", "5", "2", "3", "1">>)
    /\ call.row_data[<<"B">>] = Str(<<"R", "9", "0", "0", "3", "0", "5", "2", "3", "1", " ", "R", "9", "0", "0", "3", "0", "5", "2", "3", "1">>)
    /\ Len(call.out.l) = 2
    /\ SeqRange(call.out.l) = { <<"F", "-", "6", "8", "8", "0", "3", "8", ".", "0", "2", "-", "0", "4", "1", "1", ".", "W", "H", ".", "W", "E", "3", "6">>,
                                <<"R", "9", "0", "0", "3", "0", "5", "2", "3", "1">> }


\* the keys of a record that are labels of worksheet columns
CellKeys(rec) ==
    DOMAIN rec.row_data \ { k_sheet, k_parsed_date, k_total_parts, k_total_ok, k_piese_nok,
                            k_scrap_rebut, k_quarantine, k_derogation, k_total_nok, k_scrap_rate,
                            k_part_numbers }

\* the part number is written in a text cell of the row of the record
WrittenInCell(pn, rec) ==
    \E k \in CellKeys(rec) :
        /\ IsStr(rec.row_data[k])
        /\ pn \in SeqRange(findall(rec.row_data[k].s, 1))

\* C26: the part numbers of a record come from the text cells of its row only:
\* the derived fields _sheet and _parsed_date contribute none, and a worksheet
\* whose name has the shape of a part number does not have its records indexed
\* under that name.
C26_PartNumbersFromCellsOnly ==
    /\ \A i \in 1..Len(all_records) :
         \A pn \in SeqRange(all_records[i].row_data[k_part_numbers].l) :
             WrittenInCell(pn, all_records[i])
    /\ \A pn \in DOMAIN by_part_number :
         \A i \in 1..Len(by_part_number[pn]) : WrittenInCell(pn, by_part_number[pn][i])

\* what holds of C26: a part number of a record is written in a cell of its row
\* or in the name of its worksheet; the parsed date contributes none
C26_FromCellsOrSheetName ==
    \A i \in 1..Len(all_records) :
        \A pn \in SeqRange(all_records[i].row_data[k_part_numbers].l) :
            \/ WrittenInCell(pn, all_records[i])
            \/ pn \in SeqRange(findall(all_records[i].row_data[k_sheet].s, 1))

\* a record with a date and a part number in a cell, in a worksheet of an
\* ordinary name: its one part number is that of the cell
C26_Witness ==
    \E i \in 1..Len(all_records) :
        /\ all_records[i].row_data[k_sheet] = Str(s_CONTROL)
        /\ Truthy(all_records[i].row_data[k_parsed_date])
        /\ all_records[i].row_data[k_part_numbers] = List(<<cell_text.PartN>>)


\* C27: every function of the Aggregator (the overall totals and the eight
\* calculate_ functions) leaves the dataset as it is: the flat list, the keys
\* and the buckets of the four indexes and the fields of every record are the
\* same after a call as before it, in whatever order the functions are called.
C27_DatasetUnchanged ==
    [][ pc = "generate" =>
          /\ all_records' = all_records
          /\ by_date' = by_date
          /\ by_machine' = by_machine
          /\ by_controlor' = by_controlor
          /\ by_part_number' = by_part_number ]_vars

\* the trend is computed, after another function, from a date index that has
\* dates with and without parts
C27_Witness ==
    /\ call.fn = "calculate_trend_data"
    /\ ~call.first
    /\ Cardinality(DOMAIN by_date) = 2
    /\ Len(call.out.labels) = 1

\* the daily rollup is computed after another function
C27_WitnessDaily ==
    /\ call.fn = "calculate_daily_stats"
    /\ ~call.first
    /\ Cardinality(DOMAIN by_date) = 1
    /\ Len(call.out) = 1


\* the sum of a total over the buckets of a rollup
RECURSIVE SumOfBuckets(_, _)
SumOfBuckets(buckets, field) ==
    IF buckets = <<>> THEN 0
    ELSE Head(buckets)[field].n + SumOfBuckets(Tail(buckets), field)

C28_WitnessTwoMonths ==
    /\ stats.t = "stats"
    /\ Len(stats.monthly_stats) = 2
    /\ SumOfBuckets(stats.monthly_stats, "total_nok") = 15 * Scale


\* the sum of a sequence of numbers
RECURSIVE SumOfValues(_)
SumOfValues(values) ==
    IF values = <<>> THEN 0 ELSE Head(values).n + SumOfValues(Tail(values))

\* C29: the values of the category breakdown sum to the overall total NOK that
\* generate_scrap_dashboard computes over the flat list, and a worksheet is a
\* label of the breakdown only if one of its records has a NOK other than 0.
C29_CategoriesSumToTotalNok ==
    stats.t = "stats" =>
        LET category == stats.category_data
        IN /\ Len(category.labels) = Len(category.values)
           /\ SumOfValues(category.values) = stats.overall.total_nok.n
           /\ \A i \in 1..Len(category.labels) :
                 \E j \in 1..Len(all_records) :
                     /\ all_records[j].row_data[k_sheet] = Str(category.labels[i])
                     /\ ~IsNone(all_records[j].row_data[k_total_nok])
                     /\ all_records[j].row_data[k_total_nok].n # 0

\* two worksheets with NOK are the categories, their values summing to 15
C29_Witness ==
    /\ stats.t = "stats"
    /\ Len(stats.category_data.labels) = 2
    /\ stats.overall.total_nok = Num(15)

\* a worksheet has a record and is no category, all its NOK being 0
C29_WitnessNoLabel ==
    /\ stats.t = "stats"
    /\ \E j \in 1..Len(all_records) :
           all_records[j].row_data[k_sheet].s \notin SeqRange(stats.category_data.labels)
    /\ Len(stats.category_data.labels) = 1


\* the dates of the date index that are in the week, or the month, of a key
DatesOfWeek(week) == { ds \in DOMAIN by_date : year_week_of(DateOf(ds)) = week }
DatesOfMonth(month) == { ds \in DOMAIN by_date : year_month_of(DateOf(ds)) = month }

\* the earliest and the latest of a set of dates
EarliestOf(dates) == CHOOSE ds \in dates : \A x \in dates : DayOf(ds) <= DayOf(x)
LatestOf(dates) == CHOOSE ds \in dates : \A x \in dates : DayOf(x) <= DayOf(ds)

C30_WitnessStartEnd ==
    /\ stats.t = "stats"
    /\ \E i \in 1..Len(stats.weekly_stats) :
           /\ stats.weekly_stats[i].start_date = cell_text.Jan01
           /\ stats.weekly_stats[i].end_date # cell_text.Jan01

=============================================================================
